---- MODULE Spec2Model ----
(***************************************************************************)
(* Model of the secret-plan vault engine (src-tauri/src): CryptoService    *)
(* (crypto.rs), VaultManager (vault.rs) and SqliteRepository               *)
(* (sqlite_repo.rs).                                                       *)
(*                                                                         *)
(* Text and byte strings are sequences of byte values (ASCII codes).       *)
(* Option<T> is a sequence of length at most one.  Results carry the       *)
(* AppError variant name in err ("Ok" when the call returned Ok).          *)
(*                                                                         *)
(* crypto, is_unlocked: the CryptoService and the flag of the manager;     *)
(* vault_items, meta, audit_log: the tables of the SQLite database;        *)
(* clock: what Utc::now() returns; sealed: the latest encryptions made on  *)
(* a CryptoService used on its own; last: the latest call, its argument    *)
(* and what it returned.  A storage call that can fail takes its outcome   *)
(* from the input fail.                                                    *)
(*                                                                         *)
(* running: the manager method that is being executed, with the mutex      *)
(* operations it still has to make; guards: the mutexes of the manager     *)
(* (crypto, conn) it holds; state_guard: the holder of the mutex around    *)
(* the application state; check: the check_password_breach command that    *)
(* is under way; threads: for each thread that calls the store, the call   *)
(* it is in and the transaction it has open.                               *)
(***************************************************************************)
EXTENDS Integers, Sequences, FiniteSets, TLC

VARIABLES crypto, is_unlocked, vault_items, meta, audit_log, clock, sealed, last,
          running, guards, state_guard, check, threads

vars == <<crypto, is_unlocked, vault_items, meta, audit_log, clock, sealed, last,
          running, guards, state_guard, check, threads>>

(***************************************************************************)
(* Bounds of the model.                                                    *)
(***************************************************************************)
MaxNonce == 1
MaxSalt == 1
MaxUuid == 2
MaxAudit == 3
MaxSessionAudit == 4
MaxDraws == 2
MaxSealed == 2
MaxRaceAudit == 3
MaxBody == 5

(***************************************************************************)
(* Option and result helpers.                                              *)
(***************************************************************************)
None == <<>>
Some(x) == <<x>>
IsSome(o) == o # <<>>
Unwrap(o) == o[1]

Ok(v) == [err |-> "Ok", val |-> v]
Err(e) == [err |-> e, val |-> <<>>]
IsOk(r) == r.err = "Ok"

(***************************************************************************)
(* Input domains.                                                          *)
(***************************************************************************)
\* master passwords "pw" and "q"
Passwords == {<<112, 119>>, <<113>>}
\* sites and usernames: "a"; "b", "c"  (contexts "a:b" and "a:c")
Sites == {<<97>>}
Usernames == {<<98>>, <<99>>}
\* credential passwords "x" and "Z9!"
SecretPasswords == {<<120>>, <<90, 57, 33>>}
Secrets == {[password |-> p] : p \in SecretPasswords}
Uuids == 1..MaxUuid
BreachStates == {"Unknown", "Safe", "Compromised"}

DefaultSettings ==
    [argon2_memory_kb |-> 65536, argon2_iterations |-> 3,
     argon2_parallelism |-> 4, auto_lock_timeout |-> 5]
\* the settings written by test_app_settings, and a memory cost below the Argon2 minimum
SettingsSet ==
    {DefaultSettings,
     [DefaultSettings EXCEPT !.argon2_memory_kb = 131072, !.auto_lock_timeout = 10],
     [DefaultSettings EXCEPT !.argon2_memory_kb = 16]}

(***************************************************************************)
(* BASE64 (standard alphabet, padded).  A base64 text is a sequence of     *)
(* alphabet indexes 0..63, with Pad for '='.                               *)
(***************************************************************************)
Pad == 64

RECURSIVE Base64Encode(_)
Base64Encode(bs) ==
    IF Len(bs) = 0 THEN <<>>
    ELSE IF Len(bs) = 1 THEN
        <<bs[1] \div 4, (bs[1] % 4) * 16, Pad, Pad>>
    ELSE IF Len(bs) = 2 THEN
        <<bs[1] \div 4, (bs[1] % 4) * 16 + bs[2] \div 16, (bs[2] % 16) * 4, Pad>>
    ELSE
        <<bs[1] \div 4, (bs[1] % 4) * 16 + bs[2] \div 16,
          (bs[2] % 16) * 4 + bs[3] \div 64, bs[3] % 64>>
        \o Base64Encode(SubSeq(bs, 4, Len(bs)))

\* decoding one quad; the last quad may be padded, the unused bits must be zero
DecodeQuad(q, isLast) ==
    IF q[1] = Pad \/ q[2] = Pad THEN Err("InvalidFormat")
    ELSE IF q[3] = Pad THEN
        IF isLast /\ q[4] = Pad /\ q[2] % 16 = 0
        THEN Ok(<<q[1] * 4 + q[2] \div 16>>)
        ELSE Err("InvalidFormat")
    ELSE IF q[4] = Pad THEN
        IF isLast /\ q[3] % 4 = 0
        THEN Ok(<<q[1] * 4 + q[2] \div 16, (q[2] % 16) * 16 + q[3] \div 4>>)
        ELSE Err("InvalidFormat")
    ELSE Ok(<<q[1] * 4 + q[2] \div 16, (q[2] % 16) * 16 + q[3] \div 4,
              (q[3] % 4) * 64 + q[4]>>)

RECURSIVE Base64Decode(_)
Base64Decode(t) ==
    IF Len(t) = 0 THEN Ok(<<>>)
    ELSE IF Len(t) < 4 THEN Err("InvalidFormat")
    ELSE LET head == DecodeQuad(SubSeq(t, 1, 4), Len(t) = 4)
             rest == Base64Decode(SubSeq(t, 5, Len(t)))
         IN  IF ~IsOk(head) THEN head
             ELSE IF ~IsOk(rest) THEN rest
             ELSE Ok(head.val \o rest.val)

(***************************************************************************)
(* Argon2id.  The function is taken as ideal: its output determines the    *)
(* password, the salt bytes and the cost parameters it was computed from.  *)
(***************************************************************************)
KdfParams(settings) ==
    [m |-> settings.argon2_memory_kb, t |-> settings.argon2_iterations,
     p |-> settings.argon2_parallelism]

U32Bytes(n) == <<(n \div 16777216) % 256, (n \div 65536) % 256, (n \div 256) % 256, n % 256>>

Argon2Raw(password, saltBytes, params) ==
    <<Len(password)>> \o password \o <<Len(saltBytes)>> \o saltBytes
    \o U32Bytes(params.m) \o U32Bytes(params.t) \o U32Bytes(params.p)

\* Params::new: memory cost at least 8 KiB per lane, at least one pass and one lane
ParamsValid(params) == params.p >= 1 /\ params.t >= 1 /\ params.m >= 8 * params.p

\* a SaltString holds base64 text without padding; the PHC hash decodes it,
\* hash_password_into is handed the text bytes
SaltBytes(salt) == <<salt, 255 - salt, 7>>
SaltText(salt) == Base64Encode(SaltBytes(salt))

(***************************************************************************)
(* AES-256-GCM.  The cipher is taken as ideal: the body is the plaintext   *)
(* shifted by a keystream of key and nonce, and the tag determines the     *)
(* key, the nonce, the associated data and the body it was computed over,  *)
(* so that decryption accepts exactly what encryption produced.            *)
(***************************************************************************)
KeyStream(key, nonce, i) ==
    (key[((i - 1) % Len(key)) + 1] + nonce[((i - 1) % Len(nonce)) + 1] + i) % 256

GcmBody(key, nonce, plaintext) ==
    [i \in 1..Len(plaintext) |-> (plaintext[i] + KeyStream(key, nonce, i)) % 256]

RECURSIVE ByteSum(_)
ByteSum(bs) == IF bs = <<>> THEN 0 ELSE (bs[1] + ByteSum(Tail(bs))) % 256

\* what the tag is computed over, followed by a check byte: no single altered
\* byte and no truncation turns the tag of one input into the tag of another
GcmTag(key, nonce, aad, body) ==
    LET over == <<Len(key)>> \o key \o nonce \o <<Len(aad)>> \o aad \o body
    IN  over \o <<ByteSum(over)>>

\* an encryption that runs the cipher under the all-zero nonce
AeadEncrypt_FixedNonce(key, nonce, plaintext, aad) ==
    LET zero == [i \in 1..Len(nonce) |-> 0]
        body == GcmBody(key, zero, plaintext)
    IN  body \o GcmTag(key, zero, aad, body)

AeadEncrypt(key, nonce, plaintext, aad) ==
    LET body == GcmBody(key, nonce, plaintext)
    IN  body \o GcmTag(key, nonce, aad, body)

\* a decryption that does not verify the tag
AeadDecrypt_NoTag(key, nonce, ciphertext, aad) ==
    LET tagFixed == 3 + Len(key) + Len(nonce) + Len(aad)
        n2 == IF Len(ciphertext) >= tagFixed THEN Len(ciphertext) - tagFixed ELSE 0
        body == SubSeq(ciphertext, 1, n2 \div 2)
    IN  Ok([i \in 1..Len(body) |-> (body[i] + 256 - KeyStream(key, nonce, i)) % 256])

AeadDecrypt(key, nonce, ciphertext, aad) ==
    LET tagFixed == 3 + Len(key) + Len(nonce) + Len(aad)
        n2 == Len(ciphertext) - tagFixed
        body == SubSeq(ciphertext, 1, n2 \div 2)
    IN  IF n2 < 0 \/ n2 % 2 # 0 THEN Err("Decryption")
        ELSE IF ciphertext # body \o GcmTag(key, nonce, aad, body) THEN Err("Decryption")
        ELSE Ok([i \in 1..Len(body) |-> (body[i] + 256 - KeyStream(key, nonce, i)) % 256])

(***************************************************************************)
(* CryptoService (crypto.rs).  A service state is a record                 *)
(*   [master_key, master_password_hash, settings];                         *)
(* an operation returns its result and, where it takes &mut self, the new  *)
(* service state in field c.                                               *)
(***************************************************************************)
NonceLen == 12

\* OsRng.fill_bytes(&mut nonce_bytes): one of MaxNonce 12-byte values
NonceBytes(n) == [i \in 1..NonceLen |-> (n * i) % 256]
Nonces == {NonceBytes(n) : n \in 1..MaxNonce}
Salts == 1..MaxSalt

CryptoService_new(settings) ==
    [master_key |-> None, master_password_hash |-> None, settings |-> settings]

get_argon2_instance(c) ==
    IF ParamsValid(KdfParams(c.settings)) THEN Ok(KdfParams(c.settings))
    ELSE Err("KeyDerivation")

\* the stored hash is the PHC string: parameters, salt and digest
derive_key_and_hash(c, master_password, salt) ==
    LET argon2 == get_argon2_instance(c)
    IN  IF ~IsOk(argon2) THEN argon2
        ELSE Ok([key |-> Argon2Raw(master_password, SaltText(salt), argon2.val),
                 hash |-> [params |-> argon2.val, salt |-> salt,
                           digest |-> Argon2Raw(master_password, SaltBytes(salt), argon2.val)]])

\* a verification that accepts every password
verify_password_Any(c, master_password, stored_hash) ==
    LET argon2 == get_argon2_instance(c)
    IN  IF ~IsOk(argon2) THEN argon2
        ELSE Ok(Argon2Raw(master_password, SaltText(stored_hash.salt), argon2.val))

\* verify_password recomputes the digest with the parameters and salt of the
\* stored hash; the key is re-derived with the instance's current parameters
verify_password_and_derive_key(c, master_password, stored_hash) ==
    LET argon2 == get_argon2_instance(c)
    IN  IF ~IsOk(argon2) THEN argon2
        ELSE IF Argon2Raw(master_password, SaltBytes(stored_hash.salt), stored_hash.params)
                    # stored_hash.digest
             THEN Err("AuthFailed")
        ELSE Ok(Argon2Raw(master_password, SaltText(stored_hash.salt), argon2.val))

\* CryptoService::unlock without a settings repository (CryptoService::new)
crypto_unlock(c, master_password, salt) ==
    IF IsSome(c.master_password_hash) THEN
        LET r == verify_password_and_derive_key(c, master_password, Unwrap(c.master_password_hash))
        IN  IF ~IsOk(r) THEN [err |-> r.err, c |-> c]
            ELSE [err |-> "Ok", c |-> [c EXCEPT !.master_key = Some(r.val)]]
    ELSE
        LET r == derive_key_and_hash(c, master_password, salt)
        IN  IF ~IsOk(r) THEN [err |-> r.err, c |-> c]
            ELSE [err |-> "Ok",
                  c |-> [c EXCEPT !.master_key = Some(r.val.key),
                                  !.master_password_hash = Some(r.val.hash)]]

crypto_lock(c) == [c EXCEPT !.master_key = None]

crypto_is_unlocked(c) == IsSome(c.master_key)

get_key(c) == IF IsSome(c.master_key) THEN Ok(Unwrap(c.master_key)) ELSE Err("VaultLocked")

\* an update that keeps the parameters the service was built with
update_kdf_settings_Keep(c, settings) == c

update_kdf_settings(c, settings) == [c EXCEPT !.settings = settings]

\* an encryption that does not bind the associated data
encrypt_raw_NoAad(c, plaintext, associated_data, nonce_bytes) ==
    LET key == get_key(c)
    IN  IF ~IsOk(key) THEN key
        ELSE Ok([nonce |-> nonce_bytes,
                 ciphertext |-> AeadEncrypt(key.val, nonce_bytes, plaintext, <<>>)])

encrypt_raw(c, plaintext, associated_data, nonce_bytes) ==
    LET key == get_key(c)
    IN  IF ~IsOk(key) THEN key
        ELSE Ok([nonce |-> nonce_bytes,
                 ciphertext |-> AeadEncrypt(key.val, nonce_bytes, plaintext, associated_data)])

\* the JSON text of an EncryptedContainer, as its token sequence
ContainerJson(nonce_b64, ciphertext_b64) == <<"nonce", nonce_b64, "ciphertext", ciphertext_b64>>

encrypt(c, plaintext, associated_data, nonce_bytes) ==
    LET r == encrypt_raw(c, plaintext, associated_data, nonce_bytes)
    IN  IF ~IsOk(r) THEN r
        ELSE Ok(ContainerJson(Base64Encode(r.val.nonce), Base64Encode(r.val.ciphertext)))

encrypt_return_nonce(c, plaintext, associated_data, nonce_bytes) ==
    encrypt_raw(c, plaintext, associated_data, nonce_bytes)

\* a decryption that hands a nonce of any length to the cipher
decrypt_raw_AnyNonce(c, ciphertext, associated_data, nonce_bytes) ==
    LET key == get_key(c)
    IN  IF ~IsOk(key) THEN key
        ELSE AeadDecrypt(key.val, nonce_bytes, ciphertext, associated_data)

decrypt_raw(c, ciphertext, associated_data, nonce_bytes) ==
    LET key == get_key(c)
    IN  IF ~IsOk(key) THEN key
        ELSE IF Len(nonce_bytes) # NonceLen THEN Err("InvalidFormat")
        ELSE AeadDecrypt(key.val, nonce_bytes, ciphertext, associated_data)

\* serde_json::from_str::<EncryptedContainer>
ParseContainer(text) ==
    IF Len(text) = 4 /\ text[1] = "nonce" /\ text[3] = "ciphertext"
    THEN Ok([nonce |-> text[2], ciphertext |-> text[4]])
    ELSE Err("InvalidFormat")

decrypt(c, encrypted_container, associated_data) ==
    LET container == ParseContainer(encrypted_container)
    IN  IF ~IsOk(container) THEN container
        ELSE LET nonce_bytes == Base64Decode(container.val.nonce)
                 ciphertext == Base64Decode(container.val.ciphertext)
             IN  IF ~IsOk(nonce_bytes) THEN nonce_bytes
                 ELSE IF ~IsOk(ciphertext) THEN ciphertext
                 ELSE decrypt_raw(c, ciphertext.val, associated_data, nonce_bytes.val)

decrypt_with_nonce(c, ciphertext, associated_data, nonce_bytes) ==
    decrypt_raw(c, ciphertext, associated_data, nonce_bytes)

(***************************************************************************)
(* Serialisation of the encrypted payloads (serde_json) and the            *)
(* associated-data contexts.                                               *)
(***************************************************************************)
\* serde_json::to_string(&secret): '{' password '}'
SecretJson(secret) == <<123>> \o secret.password \o <<125>>

ParseSecret(bytes) ==
    IF Len(bytes) >= 2 /\ bytes[1] = 123 /\ bytes[Len(bytes)] = 125
    THEN Ok([password |-> SubSeq(bytes, 2, Len(bytes) - 1)])
    ELSE Err("Serialization")

\* serde_json::to_vec(settings)
SettingsJson(settings) ==
    <<91>> \o U32Bytes(settings.argon2_memory_kb) \o U32Bytes(settings.argon2_iterations)
    \o U32Bytes(settings.argon2_parallelism) \o U32Bytes(settings.auto_lock_timeout) \o <<93>>

U32Of(bytes, i) ==
    bytes[i] * 16777216 + bytes[i + 1] * 65536 + bytes[i + 2] * 256 + bytes[i + 3]

ParseSettings(bytes) ==
    IF Len(bytes) = 18 /\ bytes[1] = 91 /\ bytes[18] = 93
    THEN Ok([argon2_memory_kb |-> U32Of(bytes, 2), argon2_iterations |-> U32Of(bytes, 6),
             argon2_parallelism |-> U32Of(bytes, 10), auto_lock_timeout |-> U32Of(bytes, 14)])
    ELSE Err("Serialization")

\* format!("{}:{}", site, username)
Context(site, username) == site \o <<58>> \o username

\* b"app_settings"
AppSettingsContext == <<97, 112, 112, 95, 115, 101, 116, 116, 105, 110, 103, 115>>

Contexts == {Context(s, u) : s \in Sites, u \in Usernames} \cup {AppSettingsContext}

(***************************************************************************)
(* VaultManager (vault.rs).  A manager state is the record                 *)
(*   [crypto, is_unlocked, vault_items, meta, audit_log]                   *)
(* of the service it owns, its flag and the three tables of its database.  *)
(* fail names the SQL step that the storage engine rejects in this call.   *)
(***************************************************************************)
Faults == {"none", "query", "data", "audit", "commit"}

VM == [crypto |-> crypto, is_unlocked |-> is_unlocked, vault_items |-> vault_items,
       meta |-> meta, audit_log |-> audit_log]

VaultManager_new(settings) ==
    [crypto |-> CryptoService_new(settings), is_unlocked |-> FALSE,
     vault_items |-> <<>>, meta |-> [settings |-> None, master_password_hash |-> None],
     audit_log |-> <<>>]

\* a return with the manager state it leaves behind
Ret(err, val, vm) == [err |-> err, val |-> val, vm |-> vm]

\* a gate that lets every caller through
ensure_unlocked_Open(vm) == Ok(<<>>)

ensure_unlocked(vm) == IF ~vm.is_unlocked THEN Err("VaultLocked") ELSE Ok(<<>>)

\* an insert that takes the id of the latest entry
AuditRow_SameId(log, now, action, item_uuid) ==
    [id |-> IF log = <<>> THEN 1 ELSE log[Len(log)].id, timestamp |-> now,
     action |-> action, item_uuid |-> item_uuid]

\* INSERT INTO audit_log: the id is assigned by AUTOINCREMENT
AuditRow(log, now, action, item_uuid) ==
    [id |-> Len(log) + 1, timestamp |-> now, action |-> action, item_uuid |-> item_uuid]

add_audit_log(vm, now, action, item_uuid, fail) ==
    IF fail = "audit" THEN Ret("Database", <<>>, vm)
    ELSE Ret("Ok", Len(vm.audit_log) + 1,
             [vm EXCEPT !.audit_log = Append(@, AuditRow(@, now, action, item_uuid))])

\* a transaction works on its own copy of the tables; commit installs it,
\* dropping it rolls back
Begin(vm) == [vault_items |-> vm.vault_items, audit_log |-> vm.audit_log]
Commit(vm, tx) == [vm EXCEPT !.vault_items = tx.vault_items, !.audit_log = tx.audit_log]

add_audit_log_tx(tx, now, action, item_uuid, fail) ==
    IF fail = "audit" THEN [err |-> "Database", tx |-> tx]
    ELSE [err |-> "Ok",
          tx |-> [tx EXCEPT !.audit_log = Append(@, AuditRow(@, now, action, item_uuid))]]

credential_exists_tx(tx, uuid) == uuid \in DOMAIN tx.vault_items

Lower(ch) == IF ch >= 65 /\ ch <= 90 THEN ch + 32 ELSE ch
Upper(ch) == IF ch >= 97 /\ ch <= 122 THEN ch - 32 ELSE ch
IsAsciiLower(ch) == ch >= 97 /\ ch <= 122
IsAsciiUpper(ch) == ch >= 65 /\ ch <= 90
IsAsciiDigit(ch) == ch >= 48 /\ ch <= 57
IsAlphanumeric(ch) == IsAsciiLower(ch) \/ IsAsciiUpper(ch) \/ IsAsciiDigit(ch)

Min(a, b) == IF a < b THEN a ELSE b

calculate_password_strength(password) ==
    LET Has(P(_)) == \E i \in 1..Len(password) : P(password[i])
        NotAlnum(ch) == ~IsAlphanumeric(ch)
    IN  ((Min(Len(password) * 2, 40) % 256)
         + (IF Has(IsAsciiLower) THEN 10 ELSE 0)
         + (IF Has(IsAsciiUpper) THEN 15 ELSE 0)
         + (IF Has(IsAsciiDigit) THEN 15 ELSE 0)
         + (IF Has(NotAlnum) THEN 20 ELSE 0)) % 256

Credential_new(uuid, now, site, username, secret_enc) ==
    [uuid |-> uuid, site |-> site, username |-> username, secret_enc |-> secret_enc,
     tags |-> <<>>, created_at |-> now, updated_at |-> now, strength |-> 0,
     breach_state |-> "Unknown"]

\* an unlock that raises the flag before the crypto service has accepted the
\* password
vault_unlock_FlagFirst(vm, master_password, salt, now, fail) ==
    LET r == crypto_unlock(vm.crypto, master_password, salt)
    IN  IF r.err # "Ok" THEN Ret(r.err, <<>>, [vm EXCEPT !.is_unlocked = TRUE])
        ELSE LET vm1 == [vm EXCEPT !.crypto = r.c, !.is_unlocked = TRUE]
             IN  LET a == add_audit_log(vm1, now, <<"Vault unlocked">>, None, fail)
                 IN  Ret(a.err, <<>>, a.vm)

\* an unlock that writes no audit entry
vault_unlock_Silent(vm, master_password, salt, now, fail) ==
    LET r == crypto_unlock(vm.crypto, master_password, salt)
    IN  IF r.err # "Ok" THEN Ret(r.err, <<>>, vm)
        ELSE Ret("Ok", <<>>, [vm EXCEPT !.crypto = r.c, !.is_unlocked = TRUE])

vault_unlock(vm, master_password, salt, now, fail) ==
    LET r == crypto_unlock(vm.crypto, master_password, salt)
    IN  IF r.err # "Ok" THEN Ret(r.err, <<>>, vm)
        ELSE LET vm1 == [vm EXCEPT !.crypto = r.c, !.is_unlocked = TRUE]
             IN  LET a == add_audit_log(vm1, now, <<"Vault unlocked">>, None, fail)
                 IN  Ret(a.err, <<>>, a.vm)

\* a lock that logs whether or not the vault was unlocked
vault_lock_Always(vm, now, fail) ==
    LET vm1 == [vm EXCEPT !.crypto = crypto_lock(@), !.is_unlocked = FALSE]
    IN  LET a == add_audit_log(vm1, now, <<"Vault locked">>, None, fail)
        IN  Ret(a.err, <<>>, a.vm)

vault_lock(vm, now, fail) ==
    IF vm.is_unlocked THEN
        LET vm1 == [vm EXCEPT !.crypto = crypto_lock(@), !.is_unlocked = FALSE]
        IN  LET a == add_audit_log(vm1, now, <<"Vault locked">>, None, fail)
            IN  Ret(a.err, <<>>, a.vm)
    ELSE Ret("Ok", <<>>, vm)

vault_is_unlocked(vm) == vm.is_unlocked

vault_add_credential(vm, site, username, secret, uuid, nonce_bytes, now, fail) ==
    LET gate == ensure_unlocked(vm)
        secret_enc == encrypt(vm.crypto, SecretJson(secret), Context(site, username), nonce_bytes)
    IN  IF ~IsOk(gate) THEN Ret(gate.err, <<>>, vm)
        ELSE IF ~IsOk(secret_enc) THEN Ret(secret_enc.err, <<>>, vm)
        ELSE
          LET credential == Credential_new(uuid, now, site, username, secret_enc.val)
              strength == calculate_password_strength(secret.password)
              tx == Begin(vm)
          IN  \* INSERT INTO vault_items: uuid is the primary key
              IF fail = "data" \/ uuid \in DOMAIN tx.vault_items THEN Ret("Database", <<>>, vm)
              ELSE
                LET tx1 == [tx EXCEPT !.vault_items =
                              (uuid :> [credential EXCEPT !.strength = strength]) @@ @]
                    a == add_audit_log_tx(tx1, now, <<"Added credential for ", site>>,
                                          Some(uuid), fail)
                IN  IF a.err # "Ok" THEN Ret(a.err, <<>>, vm)
                    ELSE IF fail = "commit" THEN Ret("Database", <<>>, vm)
                    ELSE Ret("Ok", credential, Commit(vm, a.tx))

\* an update that stores the record of the caller as it is
vault_update_credential_Replace(vm, uuid, updates, now, fail) ==
    LET gate == ensure_unlocked(vm)
        tx == Begin(vm)
    IN  IF ~IsOk(gate) THEN Ret(gate.err, <<>>, vm)
        ELSE IF fail = "query" THEN Ret("Database", <<>>, vm)
        ELSE IF ~credential_exists_tx(tx, uuid) THEN Ret("NotFound", <<>>, vm)
        ELSE IF fail = "data" THEN Ret("Database", <<>>, vm)
        ELSE
          LET tx1 == [tx EXCEPT !.vault_items[uuid] = [updates EXCEPT !.updated_at = now]]
              a == add_audit_log_tx(tx1, now, <<"Updated credential for ", updates.site>>,
                                    Some(uuid), fail)
          IN  IF a.err # "Ok" THEN Ret(a.err, <<>>, vm)
              ELSE IF fail = "commit" THEN Ret("Database", <<>>, vm)
              ELSE Ret("Ok", <<>>, Commit(vm, a.tx))

vault_update_credential(vm, uuid, updates, now, fail) ==
    LET gate == ensure_unlocked(vm)
        tx == Begin(vm)
    IN  IF ~IsOk(gate) THEN Ret(gate.err, <<>>, vm)
        ELSE IF fail = "query" THEN Ret("Database", <<>>, vm)
        ELSE IF ~credential_exists_tx(tx, uuid) THEN Ret("NotFound", <<>>, vm)
        ELSE IF fail = "data" THEN Ret("Database", <<>>, vm)
        ELSE
          LET tx1 == [tx EXCEPT !.vault_items[uuid] =
                        [@ EXCEPT !.site = updates.site, !.username = updates.username,
                                  !.secret_enc = updates.secret_enc, !.tags = updates.tags,
                                  !.updated_at = now, !.strength = updates.strength,
                                  !.breach_state = updates.breach_state]]
              a == add_audit_log_tx(tx1, now, <<"Updated credential for ", updates.site>>,
                                    Some(uuid), fail)
          IN  IF a.err # "Ok" THEN Ret(a.err, <<>>, vm)
              ELSE IF fail = "commit" THEN Ret("Database", <<>>, vm)
              ELSE Ret("Ok", <<>>, Commit(vm, a.tx))

vault_delete_credential(vm, uuid, now, fail) ==
    LET gate == ensure_unlocked(vm)
        tx == Begin(vm)
    IN  IF ~IsOk(gate) THEN Ret(gate.err, <<>>, vm)
        ELSE IF fail = "query" THEN Ret("Database", <<>>, vm)
        ELSE IF uuid \notin DOMAIN tx.vault_items THEN Ret("NotFound", <<>>, vm)
        ELSE IF fail = "data" THEN Ret("Database", <<>>, vm)
        ELSE
          LET site == tx.vault_items[uuid].site
              tx1 == [tx EXCEPT !.vault_items =
                        [u \in DOMAIN @ \ {uuid} |-> @[u]]]
              a == add_audit_log_tx(tx1, now, <<"Deleted credential for ", site>>,
                                    Some(uuid), fail)
          IN  IF a.err # "Ok" THEN Ret(a.err, <<>>, vm)
              ELSE IF fail = "commit" THEN Ret("Database", <<>>, vm)
              ELSE Ret("Ok", <<>>, Commit(vm, a.tx))

\* query_row(...)?: a missing row is rusqlite's QueryReturnedNoRows, converted
\* by From<rusqlite::Error> into AppError::Database
vault_get_credential(vm, uuid, fail) ==
    LET gate == ensure_unlocked(vm)
    IN  IF ~IsOk(gate) THEN Ret(gate.err, <<>>, vm)
        ELSE IF fail = "query" \/ uuid \notin DOMAIN vm.vault_items THEN Ret("Database", <<>>, vm)
        ELSE Ret("Ok", vm.vault_items[uuid], vm)

\* a decryption that binds the site alone
vault_decrypt_secret_SiteOnly(vm, credential) ==
    LET gate == ensure_unlocked(vm)
        plaintext == decrypt(vm.crypto, credential.secret_enc, credential.site)
    IN  IF ~IsOk(gate) THEN Ret(gate.err, <<>>, vm)
        ELSE IF ~IsOk(plaintext) THEN Ret(plaintext.err, <<>>, vm)
        ELSE LET secret == ParseSecret(plaintext.val)
             IN  Ret(secret.err, secret.val, vm)

vault_decrypt_secret(vm, credential) ==
    LET gate == ensure_unlocked(vm)
        plaintext == decrypt(vm.crypto, credential.secret_enc,
                             Context(credential.site, credential.username))
    IN  IF ~IsOk(gate) THEN Ret(gate.err, <<>>, vm)
        ELSE IF ~IsOk(plaintext) THEN Ret(plaintext.err, <<>>, vm)
        ELSE LET secret == ParseSecret(plaintext.val)
             IN  Ret(secret.err, secret.val, vm)

BreachAction(state) ==
    CASE state = "Safe" -> <<"Marked credential as safe">>
      [] state = "Compromised" -> <<"Marked credential as compromised">>
      [] state = "Unknown" -> <<"Reset credential breach state">>

\* the UPDATE's count of affected rows is not looked at
vault_update_breach_state(vm, uuid, state, now, fail) ==
    LET gate == ensure_unlocked(vm)
        tx == Begin(vm)
    IN  IF ~IsOk(gate) THEN Ret(gate.err, <<>>, vm)
        ELSE IF fail = "data" THEN Ret("Database", <<>>, vm)
        ELSE
          LET tx1 == [tx EXCEPT !.vault_items =
                        [u \in DOMAIN @ |->
                            IF u = uuid THEN [@[u] EXCEPT !.breach_state = state] ELSE @[u]]]
              a == add_audit_log_tx(tx1, now, BreachAction(state), Some(uuid), fail)
          IN  IF a.err # "Ok" THEN Ret(a.err, <<>>, vm)
              ELSE IF fail = "commit" THEN Ret("Database", <<>>, vm)
              ELSE Ret("Ok", <<>>, Commit(vm, a.tx))

RECURSIVE LowerSeq(_)
LowerSeq(text) == IF text = <<>> THEN <<>> ELSE <<Lower(Head(text))>> \o LowerSeq(Tail(text))

Contains(hay, needle) ==
    \E i \in 0..(Len(hay) - Len(needle)) : SubSeq(hay, i + 1, i + Len(needle)) = needle

\* column LIKE '%term%': ASCII case-insensitive substring match
Like(column, term) == Contains(LowerSeq(column), LowerSeq(term))

\* the text of the tags column: '[' '"' tag '"' ',' ... ']'
RECURSIVE TagsJoin(_)
TagsJoin(tags) ==
    IF tags = <<>> THEN <<>>
    ELSE <<34>> \o Head(tags) \o <<34>>
         \o (IF Len(tags) > 1 THEN <<44>> ELSE <<>>) \o TagsJoin(Tail(tags))
TagsText(tags) == <<91>> \o TagsJoin(tags) \o <<93>>

VaultFilterMatches(row, filter) ==
    /\ IsSome(filter.search_term) =>
          (Like(row.site, Unwrap(filter.search_term))
           \/ Like(row.username, Unwrap(filter.search_term)))
    /\ IsSome(filter.tag) => Like(TagsText(row.tags), Unwrap(filter.tag))
    /\ IsSome(filter.min_strength) => row.strength >= Unwrap(filter.min_strength)
    /\ IsSome(filter.breach_state) => row.breach_state = Unwrap(filter.breach_state)

\* the statement has no ORDER BY: the result is given as the set of its rows
vault_list_credentials(vm, filter, fail) ==
    LET gate == ensure_unlocked(vm)
    IN  IF ~IsOk(gate) THEN Ret(gate.err, <<>>, vm)
        ELSE IF fail = "query" THEN Ret("Database", <<>>, vm)
        ELSE Ret("Ok",
                 {vm.vault_items[u] : u \in
                    {v \in DOMAIN vm.vault_items :
                        IsSome(filter) => VaultFilterMatches(vm.vault_items[v], Unwrap(filter))}},
                 vm)

\* a get_settings that ignores the lock state
vault_get_settings_Gated(vm, fail) ==
    IF fail = "query" THEN Ret("Database", <<>>, vm)
    ELSE IF IsSome(vm.meta.settings) THEN
        LET plaintext == decrypt(vm.crypto, Unwrap(vm.meta.settings), AppSettingsContext)
        IN  IF ~IsOk(plaintext) THEN Ret(plaintext.err, <<>>, vm)
            ELSE LET settings == ParseSettings(plaintext.val)
                 IN  Ret(settings.err, settings.val, vm)
    ELSE Ret("Ok", DefaultSettings, vm)

vault_get_settings(vm, fail) ==
    IF fail = "query" THEN Ret("Database", <<>>, vm)
    ELSE IF IsSome(vm.meta.settings) THEN
        IF vm.is_unlocked THEN
            LET plaintext == decrypt(vm.crypto, Unwrap(vm.meta.settings), AppSettingsContext)
            IN  IF ~IsOk(plaintext) THEN Ret(plaintext.err, <<>>, vm)
                ELSE LET settings == ParseSettings(plaintext.val)
                     IN  Ret(settings.err, settings.val, vm)
        ELSE Ret("Ok", DefaultSettings, vm)
    ELSE Ret("Ok", DefaultSettings, vm)

vault_save_settings(vm, settings, nonce_bytes, now, fail) ==
    LET gate == ensure_unlocked(vm)
        encrypted == encrypt(vm.crypto, SettingsJson(settings), AppSettingsContext, nonce_bytes)
    IN  IF ~IsOk(gate) THEN Ret(gate.err, <<>>, vm)
        ELSE IF ~IsOk(encrypted) THEN Ret(encrypted.err, <<>>, vm)
        ELSE IF fail = "data" THEN Ret("Database", <<>>, vm)
        ELSE
          LET vm1 == [vm EXCEPT !.meta.settings = Some(encrypted.val),
                                !.crypto = update_kdf_settings(@, settings)]
              a == add_audit_log(vm1, now, <<"Updated app settings">>, None, fail)
          IN  Ret(a.err, <<>>, a.vm)

DefaultLimit == 100

\* ORDER BY timestamp DESC LIMIT ?: read backwards off idx_audit_timestamp,
\* whose entries are ordered by (timestamp, rowid)
RECURSIVE NewestFirst(_, _)
NewestFirst(rows, n) ==
    IF n = 0 \/ rows = {} THEN <<>>
    ELSE LET top == CHOOSE r \in rows : \A q \in rows :
                        \/ q.timestamp < r.timestamp
                        \/ (q.timestamp = r.timestamp /\ q.id <= r.id)
         IN  <<top>> \o NewestFirst(rows \ {top}, n - 1)

vault_get_audit_log(vm, limit, fail) ==
    LET gate == ensure_unlocked(vm)
        n == IF IsSome(limit) THEN Unwrap(limit) ELSE DefaultLimit
    IN  IF ~IsOk(gate) THEN Ret(gate.err, <<>>, vm)
        ELSE IF fail = "query" THEN Ret("Database", <<>>, vm)
        ELSE Ret("Ok", NewestFirst({vm.audit_log[i] : i \in 1..Len(vm.audit_log)}, n), vm)

(***************************************************************************)
(* The VaultManager as a state machine: one action per public method.      *)
(* last records the most recent call: its name, arguments, error variant   *)
(* and returned value.  Calls read the wall clock for their timestamps.     *)
(***************************************************************************)
TagSets == {<<<<119>>>>}

NoFilter ==
    [search_term |-> None, tag |-> None, min_strength |-> None, breach_state |-> None]
Filters ==
    {None, Some([NoFilter EXCEPT !.search_term = Some(<<66>>)]),
     Some([NoFilter EXCEPT !.tag = Some(<<119>>), !.min_strength = Some(50),
                           !.breach_state = Some("Safe")])}
Limits == {None, Some(1)}

NoFault == {"none"}
AuditFault == {"none", "audit"}

SetVM(vm) ==
    /\ crypto' = vm.crypto
    /\ is_unlocked' = vm.is_unlocked
    /\ vault_items' = vm.vault_items
    /\ meta' = vm.meta
    /\ audit_log' = vm.audit_log

\* one call of an operation: the manager's new state and what the caller saw
Call(op, arg, r) ==
    /\ SetVM(r.vm)
    /\ last' = [op |-> op, arg |-> arg, err |-> r.err, val |-> r.val]
    /\ running' = None
    /\ UNCHANGED <<clock, sealed, guards, state_guard, check, threads>>

\* the threads that share one SqliteRepository
Threads == {1, 2}

\* the manager is constructed with AppSettings::default() (lib.rs: initialize_vault)
InitState ==
    /\ LET vm == VaultManager_new(DefaultSettings)
       IN  /\ crypto = vm.crypto
           /\ is_unlocked = vm.is_unlocked
           /\ vault_items = vm.vault_items
           /\ meta = vm.meta
           /\ audit_log = vm.audit_log
    /\ clock = 0
    /\ sealed = None
    /\ running = None
    /\ guards = {}
    /\ state_guard = None
    /\ check = None
    /\ threads = [t \in Threads |-> [pc |-> "idle"]]

Init ==
    /\ InitState
    /\ last = [op |-> "new", arg |-> <<>>, err |-> "Ok", val |-> <<>>]

Unlock(passwords, fails) ==
    \E master_password \in passwords, salt \in Salts, fail \in fails :
        Call("unlock", master_password,
             vault_unlock(VM, master_password, salt, clock, fail))

Lock(fails) ==
    \E fail \in fails :
        Call("lock", <<>>, vault_lock(VM, clock, fail))

AddCredential(usernames, secrets, uuids, fails) ==
    \E site \in Sites, username \in usernames, secret \in secrets, uuid \in uuids,
       nonce_bytes \in Nonces, fail \in fails :
        Call("add_credential",
             [uuid |-> uuid, site |-> site, username |-> username, secret |-> secret],
             vault_add_credential(VM, site, username, secret, uuid, nonce_bytes, clock, fail))

\* the caller edits the record it read before (or, for a uuid that is not
\* stored, a record it builds) and passes it back; stamps are the uuid and
\* created_at values it may have put in place of those of the record
Updates(uuid, tag_sets, stamps) ==
    LET base == IF uuid \in DOMAIN vault_items THEN vault_items[uuid]
                ELSE Credential_new(uuid, clock, <<97>>, <<98>>, <<>>)
        own == [uuid |-> base.uuid, created_at |-> base.created_at]
    IN  {[base EXCEPT !.username = username, !.tags = tags, !.breach_state = state,
                      !.uuid = stamp.uuid, !.created_at = stamp.created_at] :
            username \in Usernames, tags \in tag_sets, state \in {"Unknown", "Safe"},
            stamp \in {own} \cup stamps}

UpdateCredential(tag_sets, stamps, fails) ==
    \E uuid \in Uuids, fail \in fails :
        \E updates \in Updates(uuid, tag_sets, stamps) :
            Call("update_credential", uuid,
                 vault_update_credential(VM, uuid, updates, clock, fail))

DeleteCredential(fails) ==
    \E uuid \in Uuids, fail \in fails :
        Call("delete_credential", uuid, vault_delete_credential(VM, uuid, clock, fail))

GetCredential ==
    \E uuid \in Uuids, fail \in {"none", "query"} :
        Call("get_credential", uuid, vault_get_credential(VM, uuid, fail))

ListCredentials ==
    \E filter \in Filters, fail \in {"none", "query"} :
        Call("list_credentials", filter, vault_list_credentials(VM, filter, fail))

\* the caller passes a record it got from get_credential or list_credentials
DecryptSecret ==
    \E uuid \in DOMAIN vault_items :
        Call("decrypt_secret", uuid, vault_decrypt_secret(VM, vault_items[uuid]))

UpdateBreachState(states, fails) ==
    \E uuid \in Uuids, state \in states, fail \in fails :
        Call("update_breach_state", uuid,
             vault_update_breach_state(VM, uuid, state, clock, fail))

GetSettings ==
    \E fail \in {"none", "query"} :
        Call("get_settings", <<>>, vault_get_settings(VM, fail))

SaveSettings(settings_set, fails) ==
    \E settings \in settings_set, nonce_bytes \in Nonces, fail \in fails :
        Call("save_settings", settings,
             vault_save_settings(VM, settings, nonce_bytes, clock, fail))

GetAuditLog(limits) ==
    \E limit \in limits, fail \in {"none", "query"} :
        Call("get_audit_log", limit, vault_get_audit_log(VM, limit, fail))

\* the whole interface of the manager under one master password, on a log of
\* at most MaxAudit entries
Next ==
    \/ Unlock({<<112, 119>>}, NoFault) /\ Len(audit_log') <= MaxAudit
    \/ Lock(NoFault) /\ Len(audit_log') <= MaxAudit
    \/ AddCredential(Usernames, {[password |-> <<120>>]}, Uuids, Faults) /\ Len(audit_log') <= MaxAudit
    \/ UpdateCredential(TagSets, {}, Faults) /\ Len(audit_log') <= MaxAudit
    \/ DeleteCredential(Faults) /\ Len(audit_log') <= MaxAudit
    \/ GetCredential
    \/ ListCredentials
    \/ DecryptSecret
    \/ UpdateBreachState(BreachStates, Faults) /\ Len(audit_log') <= MaxAudit
    \/ GetSettings
    \/ SaveSettings({DefaultSettings}, NoFault) /\ Len(audit_log') <= MaxAudit
    \/ GetAuditLog(Limits)

Spec == Init /\ [][Next]_vars

(***************************************************************************)
(* Lock gating and missing records (properties of Spec).                   *)
(***************************************************************************)

\* C1: while the manager is Locked, each of add_credential, update_credential,
\* delete_credential, get_credential, list_credentials, decrypt_secret,
\* update_breach_state, save_settings and get_audit_log fails with VaultLocked
\* and leaves the credential table, the stored settings and the audit log
\* unchanged.
C1_LockGating ==
    [][(~is_unlocked
        /\ last'.op \in {"add_credential", "update_credential", "delete_credential",
                         "get_credential", "list_credentials", "decrypt_secret",
                         "update_breach_state", "save_settings", "get_audit_log"})
       => (last'.err = "VaultLocked" /\ UNCHANGED <<vault_items, meta, audit_log>>)]_vars

\* a delete of a stored credential was refused on a locked vault
C1_Witness ==
    /\ ~is_unlocked
    /\ last.op = "delete_credential"
    /\ last.arg \in DOMAIN vault_items
    /\ last.err = "VaultLocked"

\* C5: update_credential, delete_credential and update_breach_state, called
\* while Unlocked with a uuid that is not stored and with the storage working,
\* each fail with NotFound, append no audit entry and change no credential.
C5_MissingUuid ==
    [][(is_unlocked
        /\ last'.op \in {"update_credential", "delete_credential", "update_breach_state"}
        /\ last'.arg \notin DOMAIN vault_items
        /\ last'.err # "Database")
       => (last'.err = "NotFound" /\ UNCHANGED <<vault_items, audit_log>>)]_vars

\* C19: the audit log is append-only: no call changes or removes an entry
\* that is in the log, and every entry a call appends has an id greater than
\* the ids of all entries that were there before.
C19_AppendOnly ==
    [][/\ Len(audit_log') >= Len(audit_log)
       /\ SubSeq(audit_log', 1, Len(audit_log)) = audit_log
       /\ \A i \in (Len(audit_log) + 1)..Len(audit_log') :
             \A j \in 1..Len(audit_log) : audit_log'[i].id > audit_log[j].id]_vars

\* a credential was deleted: the entry of its addition is still in the log,
\* before the entry of its deletion
C19_Witness ==
    /\ last.op = "delete_credential"
    /\ last.err = "Ok"
    /\ Len(audit_log) = 3
    /\ audit_log[2].item_uuid = Some(last.arg)
    /\ audit_log[3].item_uuid = Some(last.arg)
    /\ audit_log[3].id = 3

\* the session life cycle (unlock, lock, settings, one stored secret) with
\* audit inserts that can fail, on a log of at most MaxSessionAudit entries
NextSession ==
    \/ Unlock(Passwords, AuditFault) /\ Len(audit_log') <= MaxSessionAudit
    \/ Lock(AuditFault) /\ Len(audit_log') <= MaxSessionAudit
    \/ AddCredential({<<98>>}, {[password |-> <<120>>]}, {1}, NoFault) /\ Len(audit_log') <= MaxSessionAudit
    \/ DecryptSecret
    \/ GetSettings
    \/ SaveSettings(SettingsSet, NoFault) /\ Len(audit_log') <= MaxSessionAudit

SpecSession == Init /\ [][NextSession]_vars

(***************************************************************************)
(* Unlocking and locking (properties of SpecSession).                      *)
(***************************************************************************)

\* C2: unlock of a Locked vault with the correct master password (the storage
\* working) succeeds, and the key it yields decrypts every credential secret
\* and the settings blob stored in earlier sessions, whatever operations came
\* before (save_settings with changed KDF parameters and lock included).
C2_CorrectPasswordReopens ==
    [][(/\ ~is_unlocked
        /\ last'.op = "unlock"
        /\ last'.err # "Database"
        /\ IsSome(crypto.master_password_hash)
        /\ LET h == Unwrap(crypto.master_password_hash)
           IN  Argon2Raw(last'.arg, SaltBytes(h.salt), h.params) = h.digest)
       => (/\ last'.err = "Ok"
           /\ \A u \in DOMAIN vault_items' :
                IsOk(decrypt(crypto', vault_items'[u].secret_enc,
                             Context(vault_items'[u].site, vault_items'[u].username)))
           /\ IsSome(meta'.settings)
                => IsOk(decrypt(crypto', Unwrap(meta'.settings), AppSettingsContext)))]_vars

\* C3 as stated: with a verification hash present, unlock with another
\* password fails with AuthFailed and the vault is Locked after the call.
C3_WrongPasswordLocks ==
    [][(/\ last'.op = "unlock"
        /\ IsSome(crypto.master_password_hash)
        /\ LET h == Unwrap(crypto.master_password_hash)
           IN  Argon2Raw(last'.arg, SaltBytes(h.salt), h.params) # h.digest)
       => (last'.err = "AuthFailed" /\ ~is_unlocked' /\ ~IsSome(crypto'.master_key))]_vars

\* C3 amended: with a verification hash present, unlock with another password
\* fails (AuthFailed when Argon2 accepts the current KDF settings, KeyDerivation
\* when it rejects them), writes no audit entry and leaves the lock state and
\* the key as they were, so a Locked vault is Locked after the call.
C3_WrongPasswordRejected ==
    [][(/\ last'.op = "unlock"
        /\ IsSome(crypto.master_password_hash)
        /\ LET h == Unwrap(crypto.master_password_hash)
           IN  Argon2Raw(last'.arg, SaltBytes(h.salt), h.params) # h.digest)
       => (/\ last'.err = IF ParamsValid(KdfParams(crypto.settings))
                          THEN "AuthFailed" ELSE "KeyDerivation"
           /\ UNCHANGED <<crypto, is_unlocked, audit_log>>)]_vars

\* a wrong password was refused on a locked vault that holds a hash
C3_Witness ==
    /\ last.op = "unlock"
    /\ last.err = "AuthFailed"
    /\ ~is_unlocked
    /\ ~IsSome(crypto.master_key)
    /\ IsSome(crypto.master_password_hash)
    /\ Len(audit_log) >= 2

\* C6: whenever unlock returns an error, the lock state is the same as before
\* the call and no audit entry has been written.
C6_FailedUnlockChangesNothing ==
    [][(last'.op = "unlock" /\ last'.err # "Ok")
       => UNCHANGED <<is_unlocked, audit_log>>]_vars

\* C7: a newly constructed manager is Locked; a successful unlock leaves it
\* Unlocked and appends exactly one audit entry "Vault unlocked" that carries
\* no credential uuid.
C7_UnlockLogged ==
    /\ ~is_unlocked
    /\ [][(last'.op = "unlock" /\ last'.err = "Ok")
          => (/\ is_unlocked'
              /\ Len(audit_log') = Len(audit_log) + 1
              /\ SubSeq(audit_log', 1, Len(audit_log)) = audit_log
              /\ audit_log'[Len(audit_log')].action = <<"Vault unlocked">>
              /\ audit_log'[Len(audit_log')].item_uuid = None)]_vars

\* a vault was unlocked again after it had been locked
C7_Witness ==
    /\ last.op = "unlock"
    /\ last.err = "Ok"
    /\ is_unlocked
    /\ Len(audit_log) >= 3
    /\ audit_log[Len(audit_log)].action = <<"Vault unlocked">>

\* C8 as stated: lock while Unlocked moves the vault to Locked and appends
\* exactly one audit entry "Vault locked"; lock while Locked changes nothing.
C8_LockLogged ==
    [][(last'.op = "lock")
       => IF is_unlocked
          THEN /\ ~is_unlocked'
               /\ Len(audit_log') = Len(audit_log) + 1
               /\ SubSeq(audit_log', 1, Len(audit_log)) = audit_log
               /\ audit_log'[Len(audit_log')].action = <<"Vault locked">>
          ELSE UNCHANGED <<crypto, is_unlocked, vault_items, meta, audit_log>>]_vars

\* C8 amended: lock while Unlocked moves the vault to Locked and drops the
\* key; it appends exactly one audit entry "Vault locked" when it returns Ok,
\* and when the audit insert fails it returns the storage error with the vault
\* Locked and no entry appended; lock while Locked returns Ok and changes
\* nothing.
C8_LockLoggedUnlessStorageFails ==
    [][(last'.op = "lock")
       => IF is_unlocked
          THEN /\ ~is_unlocked'
               /\ ~IsSome(crypto'.master_key)
               /\ UNCHANGED <<vault_items, meta>>
               /\ IF last'.err = "Ok"
                  THEN /\ Len(audit_log') = Len(audit_log) + 1
                       /\ SubSeq(audit_log', 1, Len(audit_log)) = audit_log
                       /\ audit_log'[Len(audit_log')].action = <<"Vault locked">>
                       /\ audit_log'[Len(audit_log')].item_uuid = None
                  ELSE last'.err = "Database" /\ audit_log' = audit_log
          ELSE /\ last'.err = "Ok"
               /\ UNCHANGED <<crypto, is_unlocked, vault_items, meta, audit_log>>]_vars

\* a lock of an unlocked vault that holds a credential was logged
C8_Witness ==
    /\ last.op = "lock"
    /\ last.err = "Ok"
    /\ ~is_unlocked
    /\ DOMAIN vault_items # {}
    /\ audit_log[Len(audit_log)].action = <<"Vault locked">>

\* C20: while the vault is Unlocked, get_settings returns the settings S of
\* the latest successful save_settings, from that save on and until the next
\* successful save_settings.  (S is also what the service holds as its live
\* settings: a successful save_settings(S) sets them to S and nothing else
\* changes them.)
C20_SettingsRoundTrip ==
    [][/\ (last'.op = "save_settings" /\ last'.err = "Ok") => crypto'.settings = last'.arg
       /\ crypto'.settings # crypto.settings
             => (last'.op = "save_settings" /\ last'.err = "Ok")
       /\ (is_unlocked /\ last'.op = "get_settings" /\ last'.err # "Database"
           /\ IsSome(meta.settings))
             => (last'.err = "Ok" /\ last'.val = crypto.settings)]_vars

\* the manager's variables are left as they were
ManagerUnchanged == UNCHANGED <<crypto, is_unlocked, vault_items, meta, audit_log>>

C22_SaveSettingsEffects ==
    [][(last'.op = "save_settings" /\ last'.err = "Ok")
          => /\ Len(audit_log') = Len(audit_log) + 1
             /\ SubSeq(audit_log', 1, Len(audit_log)) = audit_log
             /\ audit_log'[Len(audit_log')].action = <<"Updated app settings">>
             /\ audit_log'[Len(audit_log')].item_uuid = None
             /\ crypto'.settings = last'.arg
             /\ get_argon2_instance(crypto')
                  = IF ParamsValid(KdfParams(last'.arg)) THEN Ok(KdfParams(last'.arg))
                    ELSE Err("KeyDerivation")
             /\ crypto'.master_password_hash = crypto.master_password_hash
             /\ meta'.master_password_hash = meta.master_password_hash
             /\ crypto'.master_key = crypto.master_key
             /\ is_unlocked' = is_unlocked
             /\ vault_items' = vault_items]_vars

\* settings with another memory cost were saved on a vault that holds a
\* verification hash and a credential
C22_Witness ==
    /\ last.op = "save_settings"
    /\ last.err = "Ok"
    /\ last.arg.argon2_memory_kb = 131072
    /\ crypto.settings = last.arg
    /\ IsSome(crypto.master_password_hash)
    /\ 1 \in DOMAIN vault_items
    /\ audit_log[Len(audit_log)].action = <<"Updated app settings">>

\* C35: the flag of the manager and the key of its CryptoService agree in
\* every state: is_unlocked is true exactly when the service holds a key,
\* after unlocks that failed and after repeated lock or unlock calls too.
C35_FlagMatchesKey ==
    vault_is_unlocked(VM) <=> crypto_is_unlocked(crypto)

\* a wrong password was refused on a vault that had been unlocked and locked
\* again: neither flag nor key
C35_Witness ==
    /\ last.op = "unlock"
    /\ last.err = "AuthFailed"
    /\ ~vault_is_unlocked(VM)
    /\ ~crypto_is_unlocked(crypto)
    /\ \E i \in 1..Len(audit_log) : audit_log[i].action = <<"Vault locked">>

\* the entries that open and close a session
SessionMarks == {<<"Vault unlocked">>, <<"Vault locked">>}

\* entry i of the log lies in an open session: the nearest session mark
\* before it is a "Vault unlocked"
InOpenSession(log, i) ==
    \E j \in 1..(i - 1) :
        /\ log[j].action = <<"Vault unlocked">>
        /\ \A k \in (j + 1)..(i - 1) : log[k].action \notin SessionMarks

\* C38: the audit log is well bracketed: every "Vault locked" entry has a
\* "Vault unlocked" entry before it with no other "Vault locked" between
\* them, and every entry of a data mutation or a settings save lies after a
\* "Vault unlocked" entry and before the "Vault locked" entry that follows it.
C38_WellBracketed ==
    \A i \in 1..Len(audit_log) :
        audit_log[i].action # <<"Vault unlocked">> => InOpenSession(audit_log, i)

(***************************************************************************)
(* A CryptoService used on its own (test_crypto_service): unlock, lock,    *)
(* update_kdf_settings, and encryptions whose output is decrypted again,   *)
(* as produced or with its ciphertext bytes altered.  sealed remembers the *)
(* latest successful encryption: its inputs, the key it ran under and its  *)
(* output; where a specification compares successive encryptions it keeps *)
(* the ones made before too, the newest first.                             *)
(***************************************************************************)
Plaintexts == {<<>>, <<104, 105>>}
\* "a:b" and "a:c"
CredentialContexts == {Context(site, username) : site \in Sites, username \in Usernames}
Alterations == {"none", "first", "last", "cut"}

FlipBit(b) == IF b % 2 = 0 THEN b + 1 ELSE b - 1

Alter(bytes, how) ==
    IF how = "none" \/ bytes = <<>> THEN bytes
    ELSE IF how = "first" THEN [bytes EXCEPT ![1] = FlipBit(@)]
    ELSE IF how = "last" THEN [bytes EXCEPT ![Len(bytes)] = FlipBit(@)]
    ELSE SubSeq(bytes, 1, Len(bytes) - 1)

CryptoCall(op, arg, r, c, s) ==
    /\ crypto' = c
    /\ sealed' = s
    /\ last' = [op |-> op, arg |-> arg, err |-> r.err, val |-> r.val]
    /\ UNCHANGED <<is_unlocked, vault_items, meta, audit_log, clock,
                   running, guards, state_guard, check, threads>>

CryptoUnlock(passwords) ==
    \E master_password \in passwords, salt \in Salts :
        LET r == crypto_unlock(crypto, master_password, salt)
        IN  CryptoCall("crypto.unlock", master_password, [err |-> r.err, val |-> <<>>],
                       r.c, sealed)

CryptoLock ==
    CryptoCall("crypto.lock", <<>>, Ok(<<>>), crypto_lock(crypto), sealed)

UpdateKdfSettings(settings_set) ==
    \E settings \in settings_set :
        CryptoCall("crypto.update_kdf_settings", <<>>, Ok(<<>>),
                   update_kdf_settings(crypto, settings), sealed)

\* sealed after an encryption: the new entry first, depth entries kept
Sealed(form, plaintext, associated_data, r, depth) ==
    IF IsOk(r)
    THEN LET entry == [form |-> form, plaintext |-> plaintext,
                       associated_data |-> associated_data,
                       key |-> crypto.master_key, out |-> r.val]
             all == <<entry>> \o sealed
         IN  SubSeq(all, 1, IF Len(all) < depth THEN Len(all) ELSE depth)
    ELSE sealed

Encrypt(nonces, depth) ==
    \E plaintext \in Plaintexts, associated_data \in CredentialContexts, nonce_bytes \in nonces :
        LET r == encrypt(crypto, plaintext, associated_data, nonce_bytes)
        IN  CryptoCall("crypto.encrypt", <<>>, r, crypto,
                       Sealed("container", plaintext, associated_data, r, depth))

EncryptReturnNonce(nonces, depth) ==
    \E plaintext \in Plaintexts, associated_data \in CredentialContexts, nonce_bytes \in nonces :
        LET r == encrypt_return_nonce(crypto, plaintext, associated_data, nonce_bytes)
        IN  CryptoCall("crypto.encrypt_return_nonce", <<>>, r, crypto,
                       Sealed("pair", plaintext, associated_data, r, depth))

\* the container of the latest encrypt, its ciphertext bytes altered and
\* encoded again, is handed to decrypt
Decrypt ==
    /\ IsSome(sealed)
    /\ Unwrap(sealed).form = "container"
    /\ \E associated_data \in CredentialContexts, how \in Alterations :
        LET container == ParseContainer(Unwrap(sealed).out).val
            bytes == Base64Decode(container.ciphertext).val
            altered == ContainerJson(container.nonce, Base64Encode(Alter(bytes, how)))
        IN  CryptoCall("crypto.decrypt", [associated_data |-> associated_data, how |-> how],
                       decrypt(crypto, altered, associated_data), crypto, sealed)

DecryptWithNonce ==
    /\ IsSome(sealed)
    /\ Unwrap(sealed).form = "pair"
    /\ \E associated_data \in CredentialContexts, how \in Alterations :
        LET out == Unwrap(sealed).out
        IN  CryptoCall("crypto.decrypt_with_nonce",
                       [associated_data |-> associated_data, how |-> how],
                       decrypt_with_nonce(crypto, Alter(out.ciphertext, how),
                                          associated_data, out.nonce),
                       crypto, sealed)

NextCrypto ==
    \/ CryptoUnlock(Passwords)
    \/ CryptoLock
    \/ UpdateKdfSettings(SettingsSet)
    \/ Encrypt(Nonces, 1)
    \/ EncryptReturnNonce(Nonces, 1)
    \/ Decrypt
    \/ DecryptWithNonce

CryptoSpec == Init /\ [][NextCrypto]_vars

\* C9: while a key is held, decrypt(encrypt(P, A), A) returns P, and
\* decrypt_with_nonce applied to the nonce and ciphertext of
\* encrypt_return_nonce(P, A) with the same A returns P, when the key is the
\* one the encryption ran under.
C9_RoundTrip ==
    (/\ last.op \in {"crypto.decrypt", "crypto.decrypt_with_nonce"}
     /\ last.arg.how = "none"
     /\ last.arg.associated_data = Unwrap(sealed).associated_data
     /\ crypto.master_key = Unwrap(sealed).key)
    => (last.err = "Ok" /\ last.val = Unwrap(sealed).plaintext)

\* a nonce and ciphertext pair was decrypted back to a non-empty plaintext
C9_Witness ==
    /\ last.op = "crypto.decrypt_with_nonce"
    /\ last.arg.how = "none"
    /\ last.err = "Ok"
    /\ last.val = <<104, 105>>
    /\ Unwrap(sealed).plaintext = <<104, 105>>

\* C10 as stated: a container produced by encrypt(P, A), decrypted under
\* associated data other than A or with its ciphertext altered, fails with a
\* Decryption error.
C10_TamperIsDecryptionError ==
    (/\ last.op = "crypto.decrypt"
     /\ (last.arg.how # "none"
         \/ last.arg.associated_data # Unwrap(sealed).associated_data))
    => last.err = "Decryption"

\* C10 amended: a container produced by encrypt(P, A), decrypted under
\* associated data other than A or with its ciphertext altered, never yields
\* a plaintext: decrypt fails with a Decryption error while a key is held and
\* with VaultLocked while none is held.
C10_TamperNeverDecrypts ==
    (/\ last.op = "crypto.decrypt"
     /\ (last.arg.how # "none"
         \/ last.arg.associated_data # Unwrap(sealed).associated_data))
    => last.err = IF IsSome(crypto.master_key) THEN "Decryption" ELSE "VaultLocked"

\* the container sealed under "a:b" was refused under "a:c" by the key that
\* sealed it
C10_Witness ==
    /\ last.op = "crypto.decrypt"
    /\ last.arg.how = "none"
    /\ Unwrap(sealed).associated_data = Context(<<97>>, <<98>>)
    /\ last.arg.associated_data = Context(<<97>>, <<99>>)
    /\ crypto.master_key = Unwrap(sealed).key
    /\ last.err = "Decryption"

\* what the latest encryption produced does not open under service c
SealedStaysShut(c) ==
    IsSome(sealed) =>
        LET entry == Unwrap(sealed)
        IN  IF entry.form = "container"
            THEN decrypt(c, entry.out, entry.associated_data).err = "VaultLocked"
            ELSE decrypt_with_nonce(c, entry.out.ciphertext, entry.associated_data,
                                    entry.out.nonce).err = "VaultLocked"

\* C30: lock() discards the key (is_unlocked() is false, encrypt and decrypt
\* fail with VaultLocked) and keeps the verification hash; the next unlock of
\* the locked service verifies against that hash: with the password the hash
\* was made from it succeeds and a key is held, with another password it
\* fails and the service stays locked.
C30_LockThenVerify ==
    [][/\ last'.op = "crypto.lock"
            => /\ ~crypto_is_unlocked(crypto')
               /\ crypto'.master_password_hash = crypto.master_password_hash
               /\ \A plaintext \in Plaintexts, associated_data \in CredentialContexts,
                     nonce_bytes \in Nonces :
                    /\ encrypt(crypto', plaintext, associated_data, nonce_bytes).err
                            = "VaultLocked"
                    /\ encrypt_return_nonce(crypto', plaintext, associated_data,
                                            nonce_bytes).err = "VaultLocked"
               /\ SealedStaysShut(crypto')
       /\ (/\ last'.op = "crypto.unlock"
           /\ ~crypto_is_unlocked(crypto)
           /\ IsSome(crypto.master_password_hash))
            => LET h == Unwrap(crypto.master_password_hash)
               IN  /\ crypto'.master_password_hash = crypto.master_password_hash
                   /\ IF Argon2Raw(last'.arg, SaltBytes(h.salt), h.params) = h.digest
                      THEN last'.err = "Ok" /\ crypto_is_unlocked(crypto')
                      ELSE last'.err # "Ok" /\ ~crypto_is_unlocked(crypto')]_vars

(***************************************************************************)
(* Successive encryptions under one service (SpecNonce).  OsRng fills the  *)
(* nonce of every encryption; the generator is free to return any of       *)
(* MaxDraws values at each call, a value it returned before included.      *)
(* sealed keeps the latest MaxSealed encryptions.                          *)
(***************************************************************************)
NonceDraws == {NonceBytes(n) : n \in 1..MaxDraws}

\* the nonce and the ciphertext bytes an encryption returned
SealedNonce(entry) ==
    IF entry.form = "container"
    THEN Base64Decode(ParseContainer(entry.out).val.nonce).val
    ELSE entry.out.nonce

SealedCiphertext(entry) ==
    IF entry.form = "container"
    THEN Base64Decode(ParseContainer(entry.out).val.ciphertext).val
    ELSE entry.out.ciphertext

\* one master password; the memory cost changes between sessions, and the
\* key with it
NextNonce ==
    \/ CryptoUnlock({<<113>>})
    \/ CryptoLock
    \/ UpdateKdfSettings({s \in SettingsSet : ParamsValid(KdfParams(s))})
    \/ Encrypt(NonceDraws, MaxSealed)
    \/ EncryptReturnNonce(NonceDraws, MaxSealed)

SpecNonce == Init /\ [][NextNonce]_vars

ForeignNonces == {<<>>, <<1, 2, 3>>, NonceBytes(1) \o <<0>>}
\* a byte, and what the latest encryption returned under its own nonce
ForeignCiphertexts ==
    {<<9>>} \cup (IF IsSome(sealed) /\ Unwrap(sealed).form = "pair"
                  THEN {Unwrap(sealed).out.ciphertext} ELSE {})
ForeignContainers ==
    {<<"garbage">>, ContainerJson(<<0>>, <<>>)}
    \cup {ContainerJson(Base64Encode(nonce_bytes), ciphertext) :
            nonce_bytes \in ForeignNonces,
            ciphertext \in {<<0>>} \cup {Base64Encode(c) : c \in ForeignCiphertexts}}

DecryptForeign ==
    \E encrypted_container \in ForeignContainers, associated_data \in CredentialContexts :
        CryptoCall("crypto.decrypt",
                   [associated_data |-> associated_data, how |-> "foreign",
                    encrypted_container |-> encrypted_container],
                   decrypt(crypto, encrypted_container, associated_data), crypto, sealed)

DecryptWithNonceForeign ==
    \E nonce_bytes \in ForeignNonces, ciphertext \in ForeignCiphertexts,
       associated_data \in CredentialContexts :
        CryptoCall("crypto.decrypt_with_nonce",
                   [associated_data |-> associated_data, how |-> "foreign",
                    ciphertext |-> ciphertext, nonce_bytes |-> nonce_bytes],
                   decrypt_with_nonce(crypto, ciphertext, associated_data, nonce_bytes),
                   crypto, sealed)

NextForeign ==
    \/ CryptoUnlock({<<113>>})
    \/ CryptoLock
    \/ Encrypt(Nonces, 1)
    \/ EncryptReturnNonce(Nonces, 1)
    \/ Decrypt
    \/ DecryptWithNonce
    \/ DecryptForeign
    \/ DecryptWithNonceForeign

SpecForeign == Init /\ [][NextForeign]_vars

CryptoCalls ==
    {"crypto.encrypt", "crypto.encrypt_return_nonce", "crypto.decrypt",
     "crypto.decrypt_with_nonce"}

\* C24: every encrypt, encrypt_return_nonce, decrypt and decrypt_with_nonce
\* call made while no key is held fails with VaultLocked, whatever it is
\* handed.
C24_LockedIsVaultLocked ==
    [][(~crypto_is_unlocked(crypto) /\ last'.op \in CryptoCalls)
          => last'.err = "VaultLocked"]_vars

\* the nonce handed to a foreign call, where it has one: the bytes passed to
\* decrypt_with_nonce, or what the nonce field of the container decodes to
HandedNonce(op, arg) ==
    IF op = "crypto.decrypt_with_nonce" THEN Ok(arg.nonce_bytes)
    ELSE LET container == ParseContainer(arg.encrypted_container)
         IN  IF ~IsOk(container) THEN container
             ELSE Base64Decode(container.val.nonce)

\* C32: while a key is held, decrypt and decrypt_with_nonce handed a nonce
\* whose length is not 12 bytes fail with InvalidFormat, whatever the
\* ciphertext and the associated data are; nothing is returned by the cipher
\* and the service is left as it was.
C32_ShortNonceIsInvalidFormat ==
    [][(/\ crypto_is_unlocked(crypto)
        /\ last'.op \in {"crypto.decrypt", "crypto.decrypt_with_nonce"}
        /\ last'.arg.how = "foreign"
        /\ IsOk(HandedNonce(last'.op, last'.arg))
        /\ Len(HandedNonce(last'.op, last'.arg).val) # NonceLen)
          => /\ last'.err = "InvalidFormat"
             /\ last'.val = <<>>
             /\ crypto' = crypto]_vars

\* decrypt_with_nonce was handed the ciphertext of an encryption made under
\* the key held, with a nonce one byte longer than 12
C32_Witness ==
    /\ last.op = "crypto.decrypt_with_nonce"
    /\ last.arg.how = "foreign"
    /\ crypto_is_unlocked(crypto)
    /\ IsSome(sealed)
    /\ Unwrap(sealed).form = "pair"
    /\ Unwrap(sealed).key = crypto.master_key
    /\ last.arg.ciphertext = Unwrap(sealed).out.ciphertext
    /\ Len(last.arg.nonce_bytes) = NonceLen + 1
    /\ last.err = "InvalidFormat"

(***************************************************************************)
(* SqliteRepository (sqlite_repo.rs): the credential store behind the      *)
(* CredentialRepository trait.  It works on the same two tables; every     *)
(* mutation runs in one transaction, which is rolled back when the         *)
(* function returns early and the Transaction is dropped.                  *)
(***************************************************************************)
repo_add_audit_log_tx(tx, now, action, item_uuid, fail) ==
    IF fail = "audit" THEN [err |-> "Database", tx |-> tx]
    ELSE [err |-> "Ok",
          tx |-> [tx EXCEPT !.audit_log = Append(@, AuditRow(@, now, action, item_uuid))]]

repo_credential_exists_tx(tx, uuid) == uuid \in DOMAIN tx.vault_items

\* an insert whose statements are committed one by one
repo_add_credential_NoTx(vm, credential, strength, now, fail) ==
    IF fail = "data" \/ credential.uuid \in DOMAIN vm.vault_items
    THEN Ret("Database", <<>>, vm)
    ELSE
      LET vm1 == [vm EXCEPT !.vault_items =
                    (credential.uuid :> [credential EXCEPT !.strength = strength]) @@ @]
          a == repo_add_audit_log_tx(Begin(vm1), now,
                                     <<"Added credential for ", credential.site>>,
                                     Some(credential.uuid), fail)
      IN  IF a.err # "Ok" THEN Ret(a.err, <<>>, vm1)
          ELSE Ret("Ok", <<>>, Commit(vm1, a.tx))

repo_add_credential(vm, credential, strength, now, fail) ==
    LET tx == Begin(vm)
    IN  \* INSERT INTO vault_items: uuid is the primary key
        IF fail = "data" \/ credential.uuid \in DOMAIN tx.vault_items
        THEN Ret("Database", <<>>, vm)
        ELSE
          LET tx1 == [tx EXCEPT !.vault_items =
                        (credential.uuid :> [credential EXCEPT !.strength = strength]) @@ @]
              a == repo_add_audit_log_tx(tx1, now, <<"Added credential for ", credential.site>>,
                                         Some(credential.uuid), fail)
          IN  IF a.err # "Ok" THEN Ret(a.err, <<>>, vm)
              ELSE IF fail = "commit" THEN Ret("Database", <<>>, vm)
              ELSE Ret("Ok", <<>>, Commit(vm, a.tx))

repo_update_credential(vm, credential, now, fail) ==
    LET tx == Begin(vm)
    IN  IF fail = "query" THEN Ret("Database", <<>>, vm)
        ELSE IF ~repo_credential_exists_tx(tx, credential.uuid) THEN Ret("NotFound", <<>>, vm)
        ELSE IF fail = "data" THEN Ret("Database", <<>>, vm)
        ELSE
          LET tx1 == [tx EXCEPT !.vault_items[credential.uuid] =
                        [@ EXCEPT !.site = credential.site, !.username = credential.username,
                                  !.secret_enc = credential.secret_enc,
                                  !.tags = credential.tags, !.updated_at = now,
                                  !.strength = credential.strength,
                                  !.breach_state = credential.breach_state]]
              a == repo_add_audit_log_tx(tx1, now,
                                         <<"Updated credential for ", credential.site>>,
                                         Some(credential.uuid), fail)
          IN  IF a.err # "Ok" THEN Ret(a.err, <<>>, vm)
              ELSE IF fail = "commit" THEN Ret("Database", <<>>, vm)
              ELSE Ret("Ok", <<>>, Commit(vm, a.tx))

repo_delete_credential(vm, uuid, now, fail) ==
    LET tx == Begin(vm)
    IN  IF fail = "query" THEN Ret("Database", <<>>, vm)
        ELSE IF uuid \notin DOMAIN tx.vault_items THEN Ret("NotFound", <<>>, vm)
        ELSE IF fail = "data" THEN Ret("Database", <<>>, vm)
        ELSE
          LET site == tx.vault_items[uuid].site
              tx1 == [tx EXCEPT !.vault_items = [u \in DOMAIN @ \ {uuid} |-> @[u]]]
              a == repo_add_audit_log_tx(tx1, now, <<"Deleted credential for ", site>>,
                                         Some(uuid), fail)
          IN  IF a.err # "Ok" THEN Ret(a.err, <<>>, vm)
              ELSE IF fail = "commit" THEN Ret("Database", <<>>, vm)
              ELSE Ret("Ok", site, Commit(vm, a.tx))

RepoBreachAction(state) ==
    CASE state = "Safe" -> <<"Marked credential as safe">>
      [] state = "Compromised" -> <<"Marked credential as compromised">>
      [] state = "Unknown" -> <<"Reset credential breach state to unknown">>

repo_update_breach_state(vm, uuid, state, now, fail) ==
    LET tx == Begin(vm)
    IN  IF fail = "data" THEN Ret("Database", <<>>, vm)
        \* rows_affected == 0
        ELSE IF uuid \notin DOMAIN tx.vault_items THEN Ret("NotFound", <<>>, vm)
        ELSE
          LET tx1 == [tx EXCEPT !.vault_items[uuid].breach_state = state]
              a == repo_add_audit_log_tx(tx1, now, RepoBreachAction(state), Some(uuid), fail)
          IN  IF a.err # "Ok" THEN Ret(a.err, <<>>, vm)
              ELSE IF fail = "commit" THEN Ret("Database", <<>>, vm)
              ELSE Ret("Ok", <<>>, Commit(vm, a.tx))

\* the records a caller of the store passes in: a container it encrypted
\* before, under a uuid of its choice
RepoCredentials ==
    {[Credential_new(uuid, clock, <<97>>, username,
                     ContainerJson(Base64Encode(NonceBytes(1)), Base64Encode(<<1, 2, 3>>)))
        EXCEPT !.breach_state = state] :
        uuid \in Uuids, username \in Usernames, state \in {"Unknown", "Safe"}}

RepoAddCredential(credentials, fails) ==
    \E credential \in credentials, strength \in {70}, fail \in fails :
        Call("repo.add_credential", [uuid |-> credential.uuid, input |-> credential],
             repo_add_credential(VM, credential, strength, clock, fail))

RepoUpdateCredential ==
    \E credential \in RepoCredentials, fail \in Faults :
        Call("repo.update_credential", [uuid |-> credential.uuid, input |-> credential],
             repo_update_credential(VM, credential, clock, fail))

RepoDeleteCredential ==
    \E uuid \in Uuids, fail \in Faults :
        Call("repo.delete_credential", [uuid |-> uuid, input |-> <<>>],
             repo_delete_credential(VM, uuid, clock, fail))

RepoUpdateBreachState ==
    \E uuid \in Uuids, state \in BreachStates, fail \in Faults :
        Call("repo.update_breach_state", [uuid |-> uuid, input |-> state],
             repo_update_breach_state(VM, uuid, state, clock, fail))

NextRepo ==
    \/ RepoAddCredential(RepoCredentials, Faults) /\ Len(audit_log') <= MaxAudit
    \/ RepoUpdateCredential /\ Len(audit_log') <= MaxAudit
    \/ RepoDeleteCredential /\ Len(audit_log') <= MaxAudit
    \/ RepoUpdateBreachState /\ Len(audit_log') <= MaxAudit

RepoSpec == Init /\ [][NextRepo]_vars

\* C4: each of the store operations add_credential, update_credential,
\* delete_credential and update_breach_state is all-or-nothing: when it fails
\* (at the data statement, the audit insert or the commit) neither the
\* credential table nor the audit log changes; when it succeeds, the data
\* change and exactly one new audit entry carrying the affected uuid are there
\* together, and no other credential changes.
C4_StoreOpsAtomic ==
    [][(last'.op \in {"repo.add_credential", "repo.update_credential",
                      "repo.delete_credential", "repo.update_breach_state"})
       => IF last'.err # "Ok"
          THEN UNCHANGED <<vault_items, audit_log>>
          ELSE LET u == last'.arg.uuid
                   in == last'.arg.input
               IN  /\ Len(audit_log') = Len(audit_log) + 1
                   /\ SubSeq(audit_log', 1, Len(audit_log)) = audit_log
                   /\ audit_log'[Len(audit_log')].item_uuid = Some(u)
                   /\ \A o \in (DOMAIN vault_items \cup DOMAIN vault_items') \ {u} :
                        /\ o \in DOMAIN vault_items
                        /\ o \in DOMAIN vault_items'
                        /\ vault_items'[o] = vault_items[o]
                   /\ CASE last'.op = "repo.add_credential" ->
                             /\ u \notin DOMAIN vault_items
                             /\ u \in DOMAIN vault_items'
                             /\ vault_items'[u] = [in EXCEPT !.strength = 70]
                        [] last'.op = "repo.update_credential" ->
                             /\ u \in DOMAIN vault_items
                             /\ u \in DOMAIN vault_items'
                             /\ vault_items'[u] =
                                  [in EXCEPT !.created_at = vault_items[u].created_at,
                                             !.updated_at = clock]
                        [] last'.op = "repo.delete_credential" ->
                             /\ u \in DOMAIN vault_items
                             /\ u \notin DOMAIN vault_items'
                        [] last'.op = "repo.update_breach_state" ->
                             /\ u \in DOMAIN vault_items
                             /\ u \in DOMAIN vault_items'
                             /\ vault_items'[u] = [vault_items[u] EXCEPT !.breach_state = in]]_vars

\* an update of a stored credential failed at a storage step while another
\* credential and three audit entries were there
C4_Witness ==
    /\ last.op = "repo.update_credential"
    /\ last.err = "Database"
    /\ last.arg.uuid \in DOMAIN vault_items
    /\ Cardinality(DOMAIN vault_items) = 2
    /\ Len(audit_log) = 3

(***************************************************************************)
(* Two threads that call update_credential and update_breach_state of one  *)
(* SqliteRepository at the same time (SpecRace).  A call locks the conn    *)
(* mutex, opens a transaction, makes its statements and commits; the       *)
(* MutexGuard is dropped when the function returns.                        *)
(***************************************************************************)
RaceCredentials == {c \in RepoCredentials : c.uuid = 1}

\* a mutex that is handed to every thread that asks
conn_free_Always(ths) == TRUE

\* self.conn.lock(): the mutex is free when no thread is between its lock
\* and its return
conn_free(ths) == \A t \in Threads : ths[t].pc \in {"idle", "called"}

RaceFrame ==
    UNCHANGED <<crypto, is_unlocked, vault_items, meta, audit_log, clock, sealed, last,
                running, guards, state_guard, check>>

\* a thread enters update_credential(credential) or update_breach_state(uuid, state)
RaceCall(t) ==
    /\ threads[t].pc = "idle"
    /\ Len(audit_log) + Cardinality({u \in Threads : threads[u].pc # "idle"}) < MaxRaceAudit
    /\ \/ \E credential \in RaceCredentials :
            threads' = [threads EXCEPT ![t] =
                          [pc |-> "called", op |-> "repo.update_credential",
                           uuid |-> credential.uuid, input |-> credential]]
       \/ \E uuid \in {1}, state \in {"Safe", "Compromised"} :
            threads' = [threads EXCEPT ![t] =
                          [pc |-> "called", op |-> "repo.update_breach_state",
                           uuid |-> uuid, input |-> state]]
    /\ RaceFrame

\* let mut conn = self.conn.lock().unwrap(); let tx = conn.transaction()?
RaceLock(t) ==
    /\ threads[t].pc = "called"
    /\ conn_free(threads)
    /\ threads' = [threads EXCEPT ![t] =
                     [pc |-> "tx", op |-> @.op, uuid |-> @.uuid, input |-> @.input,
                      tx |-> Begin(VM)]]
    /\ RaceFrame

\* the row as the UPDATE statement of the call leaves it
RaceUpdated(row, th, now) ==
    IF th.op = "repo.update_credential"
    THEN [row EXCEPT !.site = th.input.site, !.username = th.input.username,
                     !.secret_enc = th.input.secret_enc, !.tags = th.input.tags,
                     !.updated_at = now, !.strength = th.input.strength,
                     !.breach_state = th.input.breach_state]
    ELSE [row EXCEPT !.breach_state = th.input]

RaceAction(th) ==
    IF th.op = "repo.update_credential"
    THEN <<"Updated credential for ", th.input.site>>
    ELSE RepoBreachAction(th.input)

\* credential_exists_tx / rows_affected == 0: NotFound is returned, which
\* drops the transaction and the guard; otherwise the UPDATE is made
RaceWrite(t) ==
    LET th == threads[t]
    IN  /\ th.pc = "tx"
        /\ IF ~repo_credential_exists_tx(th.tx, th.uuid)
           THEN /\ threads' = [threads EXCEPT ![t] = [pc |-> "idle"]]
                /\ last' = [op |-> th.op, arg |-> [uuid |-> th.uuid, input |-> th.input],
                            err |-> "NotFound", val |-> <<>>]
           ELSE /\ threads' = [threads EXCEPT ![t] =
                                 [th EXCEPT !.pc = "written",
                                            !.tx.vault_items[th.uuid] =
                                                RaceUpdated(@, th, clock)]]
                /\ UNCHANGED last
        /\ UNCHANGED <<crypto, is_unlocked, vault_items, meta, audit_log, clock, sealed,
                       running, guards, state_guard, check>>

\* self.add_audit_log_tx(&tx, action, Some(uuid))?
RaceAudit(t) ==
    LET th == threads[t]
        a == repo_add_audit_log_tx(th.tx, clock, RaceAction(th), Some(th.uuid), "none")
    IN  /\ th.pc = "written"
        /\ threads' = [threads EXCEPT ![t] = [th EXCEPT !.pc = "logged", !.tx = a.tx]]
        /\ RaceFrame

\* tx.commit()?; Ok(()): the function returns and the guard is dropped
RaceCommit(t) ==
    LET th == threads[t]
    IN  /\ th.pc = "logged"
        /\ SetVM(Commit(VM, th.tx))
        /\ threads' = [threads EXCEPT ![t] = [pc |-> "idle"]]
        /\ last' = [op |-> th.op, arg |-> [uuid |-> th.uuid, input |-> th.input],
                    err |-> "Ok", val |-> <<>>]
        /\ UNCHANGED <<clock, sealed, running, guards, state_guard, check>>

NextRace ==
    \/ conn_free(threads) /\ RepoAddCredential(RaceCredentials, NoFault)
         /\ Len(audit_log') <= MaxRaceAudit
    \/ \E t \in Threads : RaceCall(t)
    \/ \E t \in Threads : RaceLock(t)
    \/ \E t \in Threads : RaceWrite(t)
    \/ \E t \in Threads : RaceAudit(t)
    \/ \E t \in Threads : RaceCommit(t)

SpecRace == Init /\ [][NextRace]_vars

\* C26: mutations of one credential that run at the same time are
\* serialized: at its commit a mutation finds the tables as the commit before
\* it left them, the stored record becomes what this mutation wrote (every
\* column of update_credential, the breach state of update_breach_state, the
\* other columns as they were committed), and the audit log gains exactly
\* the entry of this mutation, so that it lists the mutations in commit order.
C26_Serialized ==
    [][\A t \in Threads :
          (threads[t].pc = "logged" /\ threads'[t].pc = "idle")
          => LET th == threads[t]
                 atomic == IF th.op = "repo.update_credential"
                           THEN repo_update_credential(VM, th.input, clock, "none")
                           ELSE repo_update_breach_state(VM, th.uuid, th.input, clock, "none")
             IN  /\ atomic.err = "Ok"
                 /\ vault_items' = atomic.vm.vault_items
                 /\ audit_log' = atomic.vm.audit_log
                 /\ th.uuid \in DOMAIN vault_items
                 /\ vault_items'[th.uuid] = RaceUpdated(vault_items[th.uuid], th, clock)
                 /\ audit_log' = Append(audit_log,
                                        AuditRow(audit_log, clock, RaceAction(th),
                                                 Some(th.uuid)))]_vars

\* update_breach_state of a credential has committed while the other thread,
\* which has called update_credential for the same credential, is waiting
\* for the mutex
C26_Witness ==
    /\ last.op = "repo.update_breach_state"
    /\ last.err = "Ok"
    /\ last.arg.uuid = 1
    /\ vault_items[1].breach_state = last.arg.input
    /\ audit_log[Len(audit_log)].action = RepoBreachAction(last.arg.input)
    /\ \E t \in Threads :
          /\ threads[t].pc = "called"
          /\ threads[t].op = "repo.update_credential"
          /\ threads[t].uuid = 1

(***************************************************************************)
(* Credentials: adding, reading, editing and listing them (SpecCrud).  The *)
(* vault is opened once and then used; the storage does not fail.          *)
(***************************************************************************)
MaxCrudAudit == 4

\* tags "w" and "wx"
CrudTagSets == {<<<<119>>>>, <<<<119, 120>>>>}

NextCrud ==
    \/ Unlock({<<112, 119>>}, NoFault) /\ Len(audit_log') <= MaxCrudAudit
    \/ AddCredential({<<98>>}, Secrets, Uuids, NoFault) /\ Len(audit_log') <= MaxCrudAudit
    \/ UpdateCredential(CrudTagSets, {}, NoFault) /\ Len(audit_log') <= MaxCrudAudit
    \/ DeleteCredential(NoFault) /\ Len(audit_log') <= MaxCrudAudit
    \/ GetCredential
    \/ ListCredentials
    \/ DecryptSecret
    \/ UpdateBreachState({"Safe"}, NoFault) /\ Len(audit_log') <= MaxCrudAudit

SpecCrud == Init /\ [][NextCrud]_vars

\* the manager as a call leaves it
VMAfter == [crypto |-> crypto', is_unlocked |-> is_unlocked', vault_items |-> vault_items',
            meta |-> meta', audit_log |-> audit_log']

\* the fields of a Credential as the interface hands it out
CredentialFields ==
    {"uuid", "site", "username", "secret_enc", "tags", "created_at", "updated_at",
     "strength", "breach_state"}

\* C11: once add_credential(site, username, secret) has succeeded, the record
\* that get_credential returns for the new uuid decrypts, through
\* decrypt_secret, to the secret that was added; what get_credential and
\* list_credentials return are records whose secret_enc is the stored
\* encrypted container, never the plaintext, and they change nothing.
C11_AddGetDecrypt ==
    [][/\ (last'.op = "add_credential" /\ last'.err = "Ok") =>
             LET vm == VMAfter
                 got == vault_get_credential(vm, last'.arg.uuid, "none")
             IN  /\ got.err = "Ok"
                 /\ vault_decrypt_secret(vm, got.val).err = "Ok"
                 /\ vault_decrypt_secret(vm, got.val).val = last'.arg.secret
       /\ (last'.op = "get_credential" /\ last'.err = "Ok") =>
             /\ DOMAIN last'.val = CredentialFields
             /\ last'.val.secret_enc = vault_items[last'.arg].secret_enc
             /\ IsOk(ParseContainer(last'.val.secret_enc))
             /\ \A secret \in Secrets : last'.val.secret_enc # SecretJson(secret)
             /\ UNCHANGED <<crypto, is_unlocked, vault_items, meta, audit_log>>
       /\ (last'.op = "list_credentials" /\ last'.err = "Ok") =>
             /\ \A c \in last'.val :
                   /\ DOMAIN c = CredentialFields
                   /\ c.secret_enc = vault_items[c.uuid].secret_enc
                   /\ IsOk(ParseContainer(c.secret_enc))
             /\ UNCHANGED <<crypto, is_unlocked, vault_items, meta, audit_log>>]_vars

\* the secret "Z9!" was added as a second credential
C11_Witness ==
    /\ is_unlocked
    /\ last.op = "add_credential"
    /\ last.err = "Ok"
    /\ last.arg.secret = [password |-> <<90, 57, 33>>]
    /\ last.arg.uuid = 2
    /\ Cardinality(DOMAIN vault_items) = 2

\* C37: the Credential that add_credential returns agrees with the record
\* that get_credential returns for its uuid right afterwards on uuid, site,
\* username, secret_enc, tags, strength and breach_state.
C37_AddReturnsStored ==
    [][(last'.op = "add_credential" /\ last'.err = "Ok") =>
          LET got == vault_get_credential(VMAfter, last'.val.uuid, "none")
          IN  /\ got.err = "Ok"
              /\ \A field \in {"uuid", "site", "username", "secret_enc", "tags",
                                "strength", "breach_state"} :
                    got.val[field] = last'.val[field]]_vars

\* C12: after a successful update_credential that changes the site or the
\* username of a credential, the stored secret is encrypted under the new
\* "site:username" context: decrypt_secret of the stored record succeeds and
\* returns the secret of the credential.
C12_UpdateReencrypts ==
    [][(last'.op = "update_credential" /\ last'.err = "Ok") =>
          LET before == vault_decrypt_secret(VM, vault_items[last'.arg])
              after == vault_decrypt_secret(VMAfter, vault_items'[last'.arg])
          IN  /\ after.err = "Ok"
              /\ before.err = "Ok" => after.val = before.val]_vars

\* C16: a credential is stored with breach_state Unknown by add_credential,
\* and the stored breach_state of a credential changes in a call of
\* update_breach_state for that credential only: update_credential and every
\* other operation leave it as it was.
C16_BreachStateOnlyByCheck ==
    [][/\ (last'.op = "add_credential" /\ last'.err = "Ok")
             => vault_items'[last'.arg.uuid].breach_state = "Unknown"
       /\ \A u \in DOMAIN vault_items \cap DOMAIN vault_items' :
             vault_items'[u].breach_state # vault_items[u].breach_state
                => (last'.op = "update_breach_state" /\ last'.arg = u)]_vars

\* C17: what list_credentials(filter) has returned are exactly the stored
\* credentials (it changes none) that satisfy every constraint present in the filter: search_term is a
\* case-insensitive substring of the site or of the username, tag is one of
\* the credential's tags, strength is at least min_strength, breach_state is
\* the given state; an absent field constrains nothing and without a filter
\* every credential is returned.
C17_ListMatchesFilter ==
    (last.op = "list_credentials" /\ last.err = "Ok") =>
        LET filter == last.arg
            Satisfies(row, f) ==
                /\ IsSome(f.search_term) =>
                      \/ Contains(LowerSeq(row.site), LowerSeq(Unwrap(f.search_term)))
                      \/ Contains(LowerSeq(row.username), LowerSeq(Unwrap(f.search_term)))
                /\ IsSome(f.tag) => \E i \in 1..Len(row.tags) : row.tags[i] = Unwrap(f.tag)
                /\ IsSome(f.min_strength) => row.strength >= Unwrap(f.min_strength)
                /\ IsSome(f.breach_state) => row.breach_state = Unwrap(f.breach_state)
        IN  last.val = {vault_items[u] : u \in
                           {v \in DOMAIN vault_items :
                               IsSome(filter) => Satisfies(vault_items[v], Unwrap(filter))}}

\* C25: after delete_credential(uuid) succeeds the record is gone:
\* get_credential(uuid) fails with NotFound, list_credentials does not return
\* it, a second delete_credential(uuid) fails with NotFound, and every other
\* credential is as it was.
C25_DeletedIsGone ==
    [][(last'.op = "delete_credential" /\ last'.err = "Ok")
          => LET uuid == last'.arg
             IN  /\ uuid \notin DOMAIN vault_items'
                 /\ DOMAIN vault_items' = DOMAIN vault_items \ {uuid}
                 /\ \A u \in DOMAIN vault_items' : vault_items'[u] = vault_items[u]
                 /\ vault_get_credential(VMAfter, uuid, "none").err = "NotFound"
                 /\ \A c \in vault_list_credentials(VMAfter, None, "none").val :
                        c.uuid # uuid
                 /\ vault_delete_credential(VMAfter, uuid, clock, "none").err = "NotFound"]_vars

(***************************************************************************)
(* One database file opened by successive managers (SpecStore).            *)
(***************************************************************************)

\* VaultManager::new on the database file of the manager before it: the
\* tables are kept (CREATE TABLE IF NOT EXISTS), the service and the flag are new
NewManager ==
    \E settings \in {DefaultSettings} :
        LET vm == VaultManager_new(settings)
        IN  /\ crypto' = vm.crypto
            /\ is_unlocked' = vm.is_unlocked
            /\ last' = [op |-> "new", arg |-> <<>>, err |-> "Ok", val |-> <<>>]
            /\ UNCHANGED <<vault_items, meta, audit_log, clock, sealed,
                           running, guards, state_guard, check, threads>>

NextStore ==
    \/ Unlock(Passwords, NoFault) /\ Len(audit_log') <= MaxSessionAudit
    \/ Lock(NoFault) /\ Len(audit_log') <= MaxSessionAudit
    \/ NewManager
    \/ AddCredential(Usernames, {[password |-> <<120>>]}, Uuids, NoFault) /\ Len(audit_log') <= MaxSessionAudit
    \/ DecryptSecret

SpecStore == Init /\ [][NextStore]_vars

\* an unlock has succeeded on this database before: it left its audit entry
UnlockedBefore == \E i \in 1..Len(audit_log) : audit_log[i].action = <<"Vault unlocked">>

\* C13: unlock creates a verification hash only on a store on which no unlock
\* has succeeded yet; on a store that was unlocked before, by this manager or
\* by an earlier one, a successful unlock found the hash of the first unlock,
\* left it as it was, and its password verifies against that hash.
C13_HashCreatedOnce ==
    [][(last'.op = "unlock" /\ last'.err = "Ok" /\ UnlockedBefore) =>
          /\ IsSome(crypto.master_password_hash)
          /\ crypto'.master_password_hash = crypto.master_password_hash
          /\ LET h == Unwrap(crypto.master_password_hash)
             IN  Argon2Raw(last'.arg, SaltBytes(h.salt), h.params) = h.digest]_vars

(***************************************************************************)
(* The two mutexes of the manager (SpecLocks).  A method is entered, makes *)
(* its mutex operations one at a time and returns.  A MutexGuard bound to  *)
(* a local is dropped at the end of the scope of the local, later locals   *)
(* first, unless drop() is called on it before.                            *)
(***************************************************************************)

\* the mutex operations of one call of a method, in program order
MutexSteps(op, vm, fail) ==
    LET crypto_only == <<"lock crypto", "drop crypto">>
        conn_only == <<"lock conn", "drop conn">>
        conn_in_crypto == <<"lock crypto", "lock conn", "drop conn", "drop crypto">>
        crypto_in_conn == <<"lock conn", "lock crypto", "drop crypto", "drop conn">>
    IN  CASE op = "unlock" ->
               \* crypto is held to the end of unlock, add_audit_log locks conn
               IF fail = "unlock" THEN crypto_only ELSE conn_in_crypto
          [] op = "lock" ->
               IF vm.is_unlocked THEN conn_in_crypto ELSE <<>>
          [] op = "add_credential" ->
               IF ~vm.is_unlocked THEN <<>>
               ELSE IF ~IsOk(get_key(vm.crypto)) THEN crypto_only
               ELSE conn_in_crypto
          [] op \in {"update_credential", "delete_credential", "get_credential",
                     "list_credentials", "update_breach_state", "get_audit_log"} ->
               IF ~vm.is_unlocked THEN <<>> ELSE conn_only
          [] op = "decrypt_secret" ->
               IF ~vm.is_unlocked THEN <<>> ELSE crypto_only
          [] op = "get_settings" ->
               IF fail # "query" /\ IsSome(vm.meta.settings) /\ vm.is_unlocked
               THEN crypto_in_conn ELSE conn_only
          [] op = "save_settings" ->
               IF ~vm.is_unlocked THEN <<>>
               ELSE IF ~IsOk(get_key(vm.crypto)) THEN crypto_only
               ELSE IF fail = "data" THEN crypto_only \o conn_only
               ELSE crypto_only \o conn_only \o conn_in_crypto

Start(op, arg, r, fail) ==
    /\ running' = Some([op |-> op, arg |-> arg, r |-> r, steps |-> MutexSteps(op, VM, fail)])
    /\ UNCHANGED <<crypto, is_unlocked, vault_items, meta, audit_log, clock, sealed, last,
                   guards, state_guard, check, threads>>

\* a method of the manager is called
Enter ==
    /\ running = None
    /\ \/ \E master_password \in Passwords, salt \in Salts :
             LET r == vault_unlock(VM, master_password, salt, clock, "none")
             IN  Start("unlock", master_password, r,
                       IF r.err = "Ok" THEN "none" ELSE "unlock")
       \/ Start("lock", <<>>, vault_lock(VM, clock, "none"), "none")
       \/ \E nonce_bytes \in Nonces :
             Start("add_credential",
                   [uuid |-> 1, site |-> <<97>>, username |-> <<98>>,
                    secret |-> [password |-> <<120>>]],
                   vault_add_credential(VM, <<97>>, <<98>>, [password |-> <<120>>], 1,
                                        nonce_bytes, clock, "none"),
                   "none")
       \/ \E updates \in Updates(1, TagSets, {}) :
             Start("update_credential", 1,
                   vault_update_credential(VM, 1, updates, clock, "none"), "none")
       \/ Start("delete_credential", 1, vault_delete_credential(VM, 1, clock, "none"), "none")
       \/ Start("get_credential", 1, vault_get_credential(VM, 1, "none"), "none")
       \/ Start("list_credentials", None, vault_list_credentials(VM, None, "none"), "none")
       \/ \E uuid \in DOMAIN vault_items :
             Start("decrypt_secret", uuid, vault_decrypt_secret(VM, vault_items[uuid]), "none")
       \/ Start("update_breach_state", 1,
                vault_update_breach_state(VM, 1, "Safe", clock, "none"), "none")
       \/ \E fail \in {"none", "query"} :
             Start("get_settings", <<>>, vault_get_settings(VM, fail), fail)
       \/ \E nonce_bytes \in Nonces, fail \in {"none", "data", "audit"} :
             Start("save_settings", <<>>,
                   vault_save_settings(VM, DefaultSettings, nonce_bytes, clock, fail), fail)
       \/ Start("get_audit_log", <<>>, vault_get_audit_log(VM, None, "none"), "none")

MutexOf(step) == IF step \in {"lock crypto", "drop crypto"} THEN "crypto" ELSE "conn"

\* self.crypto.lock().unwrap() / self.conn.lock().unwrap(): blocks while the
\* mutex is held
LockMutex ==
    /\ IsSome(running)
    /\ Unwrap(running).steps # <<>>
    /\ Head(Unwrap(running).steps) \in {"lock crypto", "lock conn"}
    /\ MutexOf(Head(Unwrap(running).steps)) \notin guards
    /\ guards' = guards \cup {MutexOf(Head(Unwrap(running).steps))}
    /\ running' = Some([Unwrap(running) EXCEPT !.steps = Tail(@)])
    /\ UNCHANGED <<crypto, is_unlocked, vault_items, meta, audit_log, clock, sealed, last,
                   state_guard, check, threads>>

DropGuard ==
    /\ IsSome(running)
    /\ Unwrap(running).steps # <<>>
    /\ Head(Unwrap(running).steps) \in {"drop crypto", "drop conn"}
    /\ guards' = guards \ {MutexOf(Head(Unwrap(running).steps))}
    /\ running' = Some([Unwrap(running) EXCEPT !.steps = Tail(@)])
    /\ UNCHANGED <<crypto, is_unlocked, vault_items, meta, audit_log, clock, sealed, last,
                   state_guard, check, threads>>

\* the method returns: its effect and its result are there
Return ==
    /\ IsSome(running)
    /\ Unwrap(running).steps = <<>>
    /\ Call(Unwrap(running).op, Unwrap(running).arg, Unwrap(running).r)

NextLocks ==
    \/ Enter
    \/ LockMutex
    \/ DropGuard
    \/ Return /\ Len(audit_log') <= MaxAudit

SpecLocks == Init /\ [][NextLocks]_vars

\* C14: no method holds the crypto mutex and the connection mutex at the same
\* time: it never locks the one while it holds a guard of the other.
C14_NeverNested == ~({"crypto", "conn"} \subseteq guards)

(***************************************************************************)
(* The check_password_breach command (lib.rs) next to the other commands   *)
(* (SpecBreach).  Every command locks the mutex around the application     *)
(* state for the time it uses the manager; check_password_breach does so   *)
(* twice, before and after its request to the breach service.              *)
(***************************************************************************)

\* a guard that outlives its block
release_state_guard_Held(holder) == holder

\* the end of a block that holds state_guard
release_state_guard(holder) == None

\* the command returns to its caller
CheckReturn(uuid, err, val) ==
    /\ last' = [op |-> "check_password_breach", arg |-> uuid, err |-> err, val |-> val]
    /\ check' = None

\* let state_guard = state.lock().unwrap()
CheckLockState ==
    /\ check = None
    /\ state_guard = None
    /\ \E uuid \in Uuids :
          check' = Some([pc |-> "extract", uuid |-> uuid, password |-> <<>>,
                         breach_state |-> "Unknown"])
    /\ state_guard' = Some("check_password_breach")
    /\ UNCHANGED <<crypto, is_unlocked, vault_items, meta, audit_log, clock, sealed, last,
                   running, guards, threads>>

\* get_credential and decrypt_secret under the guard; the block ends
CheckExtract ==
    /\ IsSome(check)
    /\ Unwrap(check).pc = "extract"
    /\ LET uuid == Unwrap(check).uuid
           credential == vault_get_credential(VM, uuid, "none")
           secret == vault_decrypt_secret(VM, credential.val)
       IN  IF credential.err # "Ok" THEN CheckReturn(uuid, credential.err, <<>>)
           ELSE IF secret.err # "Ok" THEN CheckReturn(uuid, secret.err, <<>>)
           ELSE /\ check' = Some([Unwrap(check) EXCEPT !.pc = "request",
                                                       !.password = secret.val.password])
                /\ UNCHANGED last
    /\ state_guard' = release_state_guard(state_guard)
    /\ UNCHANGED <<crypto, is_unlocked, vault_items, meta, audit_log, clock, sealed,
                   running, guards, threads>>

\* hibp_service.check_password(&password_hash).await completes
CheckResponse ==
    /\ IsSome(check)
    /\ Unwrap(check).pc = "request"
    /\ \/ \E breach_state \in {"Safe", "Compromised"} :
             /\ check' = Some([Unwrap(check) EXCEPT !.pc = "relock",
                                                    !.breach_state = breach_state])
             /\ UNCHANGED last
       \/ CheckReturn(Unwrap(check).uuid, "Other", <<>>)
    /\ UNCHANGED <<crypto, is_unlocked, vault_items, meta, audit_log, clock, sealed,
                   running, guards, state_guard, threads>>

\* let mut state_guard = state.lock().unwrap()
CheckLockAgain ==
    /\ IsSome(check)
    /\ Unwrap(check).pc = "relock"
    /\ state_guard = None
    /\ state_guard' = Some("check_password_breach")
    /\ check' = Some([Unwrap(check) EXCEPT !.pc = "update"])
    /\ UNCHANGED <<crypto, is_unlocked, vault_items, meta, audit_log, clock, sealed, last,
                   running, guards, threads>>

\* update_breach_state under the guard; the block ends and the command returns
CheckWriteBack ==
    /\ IsSome(check)
    /\ Unwrap(check).pc = "update"
    /\ \E fail \in AuditFault :
          LET r == vault_update_breach_state(VM, Unwrap(check).uuid,
                                             Unwrap(check).breach_state, clock, fail)
          IN  /\ SetVM(r.vm)
              /\ CheckReturn(Unwrap(check).uuid, r.err,
                             IF r.err = "Ok" THEN Unwrap(check).breach_state ELSE <<>>)
    /\ state_guard' = release_state_guard(state_guard)
    /\ UNCHANGED <<clock, sealed, running, guards, threads>>

NextBreach ==
    \/ state_guard = None /\ Unlock({<<112, 119>>}, NoFault) /\ Len(audit_log') <= MaxCrudAudit
    \/ state_guard = None /\ Lock(NoFault) /\ Len(audit_log') <= MaxCrudAudit
    \/ state_guard = None /\ AddCredential({<<98>>}, {[password |-> <<120>>]}, Uuids, NoFault)
          /\ Len(audit_log') <= MaxCrudAudit
    \/ state_guard = None /\ DeleteCredential(NoFault) /\ Len(audit_log') <= MaxCrudAudit
    \/ state_guard = None /\ GetCredential
    \/ CheckLockState
    \/ CheckExtract
    \/ CheckResponse
    \/ CheckLockAgain
    \/ CheckWriteBack /\ Len(audit_log') <= MaxCrudAudit

SpecBreach == Init /\ [][NextBreach]_vars

\* C15: check_password_breach holds the mutex of the application state in its
\* two blocks only: while its request is outstanding and until it locks
\* again the mutex is free, so that every other command can take it and run;
\* when the command succeeds, the state it returns is the state that
\* update_breach_state wrote, in the audit entry and in the credential's row.
C15_BreachCheckLocking ==
    [][/\ (IsSome(check') /\ Unwrap(check').pc \in {"request", "relock"})
              => state_guard' = None
       /\ IsSome(state_guard')
              => (IsSome(check') /\ Unwrap(check').pc \in {"extract", "update"})
       /\ (last'.op = "check_password_breach" /\ last'.err = "Ok" /\ check' = None
           /\ IsSome(check)) =>
             LET uuid == Unwrap(check).uuid
             IN  /\ last'.val = Unwrap(check).breach_state
                 /\ audit_log' = Append(audit_log,
                                        AuditRow(audit_log, clock, BreachAction(last'.val),
                                                 Some(uuid)))
                 /\ uuid \in DOMAIN vault_items' => vault_items'[uuid].breach_state = last'.val
                 /\ \A u \in DOMAIN vault_items' \ {uuid} : vault_items'[u] = vault_items[u]]_vars

\* while the request for credential 1 was outstanding, another command ran to
\* completion: it unlocked the mutex again and added credential 2
C15_Witness ==
    /\ IsSome(check)
    /\ Unwrap(check).pc = "request"
    /\ Unwrap(check).uuid = 1
    /\ state_guard = None
    /\ last.op = "add_credential"
    /\ last.err = "Ok"
    /\ last.arg.uuid = 2

\* C36: when the vault was locked or the checked credential was deleted
\* while the request of a breach check was outstanding, the write-back of
\* the check returns an error instead of a breach state, changes the breach
\* state of no credential and appends no audit entry.
C36_StaleCheckFails ==
    [][(/\ IsSome(check)
        /\ Unwrap(check).pc = "update"
        /\ check' = None
        /\ (~is_unlocked \/ Unwrap(check).uuid \notin DOMAIN vault_items))
          => /\ last'.op = "check_password_breach"
             /\ last'.err # "Ok"
             /\ last'.val = <<>>
             /\ vault_items' = vault_items
             /\ audit_log' = audit_log]_vars

(***************************************************************************)
(* The audit log read back while the wall clock moves (SpecAudit).         *)
(* Utc::now() is the system's wall clock, in whole seconds: between two    *)
(* calls it may stand still, advance, or be set back.                      *)
(***************************************************************************)
MaxClock == 2

AuditLimits == {None, Some(0), Some(1), Some(2)}

Tick(times) ==
    /\ \E now \in times : now # clock /\ clock' = now
    /\ UNCHANGED <<crypto, is_unlocked, vault_items, meta, audit_log, sealed, last,
                   running, guards, state_guard, check, threads>>

NextAudit ==
    \/ Unlock({<<112, 119>>}, NoFault) /\ Len(audit_log') <= MaxAudit
    \/ Lock(NoFault) /\ Len(audit_log') <= MaxAudit
    \/ AddCredential({<<98>>}, {[password |-> <<120>>]}, {1}, NoFault) /\ Len(audit_log') <= MaxAudit
    \/ DeleteCredential({"none", "audit"}) /\ Len(audit_log') <= MaxAudit
    \/ Tick(0..MaxClock)
    \/ GetAuditLog(AuditLimits)

SpecAudit == Init /\ [][NextAudit]_vars

\* C18: what get_audit_log(limit) has returned are at most limit entries (100
\* without a limit): the most recently appended entries of the log, the
\* latest appended first and each entry before all entries appended before it.
C18_NewestFirst ==
    (last.op = "get_audit_log" /\ last.err = "Ok") =>
        LET n == IF IsSome(last.arg) THEN Unwrap(last.arg) ELSE 100
        IN  /\ Len(last.val) <= n
            /\ Len(last.val) = Min(n, Len(audit_log))
            /\ \A i \in 1..Len(last.val) : last.val[i] = audit_log[Len(audit_log) + 1 - i]

(***************************************************************************)
(* The timestamps of a credential while the wall clock advances            *)
(* (SpecTime): credentials are added, edited, marked and deleted; between  *)
(* two calls the clock stands still or moves forward.                      *)
(***************************************************************************)
\* another uuid and another creation time in the record handed to
\* update_credential
OtherStamps == {[uuid |-> uuid, created_at |-> MaxClock] : uuid \in Uuids}

NextTime ==
    \/ Unlock({<<112, 119>>}, NoFault) /\ Len(audit_log') <= MaxCrudAudit
    \/ AddCredential({<<98>>}, {[password |-> <<120>>]}, Uuids, NoFault)
         /\ Len(audit_log') <= MaxCrudAudit
    \/ UpdateCredential(TagSets, OtherStamps, NoFault) /\ Len(audit_log') <= MaxCrudAudit
    \/ DeleteCredential(NoFault) /\ Len(audit_log') <= MaxCrudAudit
    \/ UpdateBreachState({"Safe"}, NoFault) /\ Len(audit_log') <= MaxCrudAudit
    \/ Tick((clock + 1)..MaxClock)

SpecTime == Init /\ [][NextTime]_vars

\* C28: a successful update_credential or update_breach_state of a stored
\* credential sets its updated_at to the time of the call, and updated_at is
\* never earlier than created_at.
C28_UpdatedAtRefreshed ==
    [][(/\ clock' = clock
        /\ last'.op \in {"update_credential", "update_breach_state"}
        /\ last'.err = "Ok"
        /\ last'.arg \in DOMAIN vault_items)
          => /\ last'.arg \in DOMAIN vault_items'
             /\ vault_items'[last'.arg].updated_at = clock
             /\ vault_items'[last'.arg].updated_at >= vault_items'[last'.arg].created_at]_vars

\* C29: a stored credential keeps the uuid and the created_at that
\* add_credential assigned: no call changes them in a record that stays
\* stored (update_credential and update_breach_state included, whatever
\* record the caller hands in), a record appears only by add_credential,
\* under the uuid and with the creation time that call returns, and none is
\* moved to another uuid.
C29_IdentityKept ==
    [][/\ \A u \in DOMAIN vault_items \cap DOMAIN vault_items' :
            /\ vault_items'[u].uuid = vault_items[u].uuid
            /\ vault_items'[u].created_at = vault_items[u].created_at
       /\ \A u \in DOMAIN vault_items' \ DOMAIN vault_items :
            /\ last'.op = "add_credential"
            /\ last'.err = "Ok"
            /\ last'.val.uuid = u
            /\ vault_items'[u].uuid = u
            /\ vault_items'[u].created_at = clock
            /\ vault_items'[u].created_at = last'.val.created_at
       /\ \A u \in DOMAIN vault_items \ DOMAIN vault_items' :
            /\ last'.op = "delete_credential"
            /\ last'.arg = u
            /\ DOMAIN vault_items' = DOMAIN vault_items \ {u}]_vars

\* a credential created at second 0 was edited at a later second, while
\* another credential is stored
C29_Witness ==
    /\ last.op = "update_credential"
    /\ last.err = "Ok"
    /\ last.arg = 1
    /\ vault_items[1].uuid = 1
    /\ vault_items[1].created_at = 0
    /\ vault_items[1].updated_at = clock
    /\ clock > 0
    /\ 2 \in DOMAIN vault_items

(***************************************************************************)
(* The order of the records list_credentials returns (SpecList).  The      *)
(* SELECT of VaultManager::list_credentials ends after its WHERE clause,   *)
(* so SQLite is free to hand the rows over in any order: the Vec returned  *)
(* is one of the orderings of the matching rows.                           *)
(***************************************************************************)
\* the sequences that hold every member of rows once
Orderings(rows) ==
    {q \in [1..Cardinality(rows) -> rows] : \A row \in rows : \E i \in DOMAIN q : q[i] = row}

ListRows(filters) ==
    \E filter \in filters :
        LET r == vault_list_credentials(VM, filter, "none")
        IN  IF r.err # "Ok" THEN Call("list_credentials", filter, r)
            ELSE \E credentials \in Orderings(r.val) :
                    Call("list_credentials", filter, [r EXCEPT !.val = credentials])

NextList ==
    \/ Unlock({<<112, 119>>}, NoFault) /\ Len(audit_log') <= MaxCrudAudit
    \/ AddCredential(Usernames, {[password |-> <<120>>]}, Uuids, NoFault)
         /\ Len(audit_log') <= MaxCrudAudit
    \/ DeleteCredential(NoFault) /\ Len(audit_log') <= MaxCrudAudit
    \/ ListRows(Filters)

SpecList == Init /\ [][NextList]_vars

\* bytewise order of two texts (the BINARY collation)
RECURSIVE TextLeq(_, _)
TextLeq(a, b) ==
    IF a = <<>> THEN TRUE
    ELSE IF b = <<>> THEN FALSE
    ELSE IF Head(a) # Head(b) THEN Head(a) < Head(b)
    ELSE TextLeq(Tail(a), Tail(b))

\* row a may stand before row b in a result ordered by site, then username
SiteUsernameLeq(a, b) ==
    IF a.site # b.site THEN TextLeq(a.site, b.site) ELSE TextLeq(a.username, b.username)

\* C31: the records list_credentials returns are sorted by site and, for
\* equal site, by username, for every filter and every store content.
C31_ListSorted ==
    (last.op = "list_credentials" /\ last.err = "Ok") =>
        \A i, j \in DOMAIN last.val : i < j => SiteUsernameLeq(last.val[i], last.val[j])

(***************************************************************************)
(* The strength column (SpecStrength).  add_credential stores the score it *)
(* computes from the password; update_credential stores the strength field *)
(* of the record it is handed, a u8 the caller is free to set.             *)
(***************************************************************************)
\* "x", and "aZ9!aaaaaaaaaaaaaaaa": twenty characters of all four classes
StrengthSecrets ==
    {[password |-> <<120>>],
     [password |-> <<97, 90, 57, 33>> \o [i \in 1..16 |-> 97]]}
\* the ends of the score range, the value above it and the largest u8
Strengths == {0, 100, 101, 255}
StrengthFilters ==
    {Some([NoFilter EXCEPT !.min_strength = Some(101)]),
     Some([NoFilter EXCEPT !.tag = Some(<<119>>), !.min_strength = Some(101)])}

UpdateStrength(strengths) ==
    \E uuid \in Uuids, strength \in strengths :
        \E updates \in Updates(uuid, TagSets, {}) :
            Call("update_credential", uuid,
                 vault_update_credential(VM, uuid, [updates EXCEPT !.strength = strength],
                                         clock, "none"))

NextStrength ==
    \/ Unlock({<<112, 119>>}, NoFault) /\ Len(audit_log') <= MaxCrudAudit
    \/ AddCredential({<<98>>}, StrengthSecrets, Uuids, NoFault)
         /\ Len(audit_log') <= MaxCrudAudit
    \/ UpdateStrength(Strengths) /\ Len(audit_log') <= MaxCrudAudit
    \/ ListRows(StrengthFilters)

SpecStrength == Init /\ [][NextStrength]_vars

\* C33: whatever add_credential and update_credential calls were made, every
\* stored credential has a strength of at most 100, and list_credentials
\* with min_strength = 101 returns no record.
C33_StrengthAtMost100 ==
    /\ \A uuid \in DOMAIN vault_items : vault_items[uuid].strength <= 100
    /\ (last.op = "list_credentials" /\ last.err = "Ok") => last.val = <<>>

(***************************************************************************)
(* One VaultManager shared by two threads (SpecShared).  add_credential,   *)
(* get_settings and save_settings take &self and may run at the same time; *)
(* unlock takes &mut self and runs while no other call is under way.  Each *)
(* thread goes through the mutex operations of its method in program       *)
(* order: lock() blocks while another thread holds the mutex, a guard      *)
(* bound to a local is held to the end of its scope or to its drop().      *)
(* threads[t].held are the mutexes thread t holds.                         *)
(***************************************************************************)
Holds(t, mutex) == threads[t].pc # "idle" /\ mutex \in threads[t].held

MutexFree(mutex) == \A t \in Threads : ~Holds(t, mutex)

\* the mutex a thread is about to lock, <<>> when it is not at a lock()
WantedMutex(t) ==
    CASE threads[t].pc \in {"add_crypto", "get_crypto", "save_encrypt", "save_crypto"}
            -> <<"crypto">>
      [] threads[t].pc \in {"add_conn", "get_conn", "save_write", "save_audit"}
            -> <<"conn">>
      [] OTHER -> <<>>

SharedFrame == UNCHANGED <<clock, sealed, running, guards, state_guard, check>>

\* the call of thread t returns r
SharedReturn(t, op, arg, r) ==
    /\ SetVM(r.vm)
    /\ last' = [op |-> op, arg |-> arg, err |-> r.err, val |-> r.val]
    /\ threads' = [threads EXCEPT ![t] = [pc |-> "idle"]]
    /\ SharedFrame

\* thread t moves on inside its call
SharedStep(t, pc, held) ==
    /\ threads' = [threads EXCEPT ![t] = [@ EXCEPT !.pc = pc, !.held = held]]
    /\ UNCHANGED last
    /\ SharedFrame

SharedUnlock ==
    /\ \A t \in Threads : threads[t].pc = "idle"
    /\ Unlock({<<112, 119>>}, NoFault)
    /\ Len(audit_log') <= MaxCrudAudit

\* a method is called: ensure_unlocked returns early on a locked vault
SharedCall(t) ==
    /\ threads[t].pc = "idle"
    /\ Len(audit_log) + Cardinality({u \in Threads : threads[u].pc # "idle"}) < MaxCrudAudit
    /\ \/ \E uuid \in Uuids, nonce_bytes \in Nonces :
            LET arg == [uuid |-> uuid, site |-> <<97>>, username |-> <<98>>,
                        secret |-> [password |-> <<120>>], nonce_bytes |-> nonce_bytes]
            IN  IF ~IsOk(ensure_unlocked(VM))
                THEN SharedReturn(t, "add_credential", arg,
                                  vault_add_credential(VM, arg.site, arg.username, arg.secret,
                                                       uuid, nonce_bytes, clock, "none"))
                ELSE /\ threads' = [threads EXCEPT ![t] =
                                      [pc |-> "add_crypto", held |-> {}, arg |-> arg]]
                     /\ UNCHANGED <<crypto, is_unlocked, vault_items, meta, audit_log, last>>
                     /\ SharedFrame
       \/ /\ threads' = [threads EXCEPT ![t] = [pc |-> "get_conn", held |-> {}, arg |-> <<>>]]
          /\ UNCHANGED <<crypto, is_unlocked, vault_items, meta, audit_log, last>>
          /\ SharedFrame
       \/ \E settings \in {DefaultSettings}, nonce_bytes \in Nonces :
            LET arg == [settings |-> settings, nonce_bytes |-> nonce_bytes]
            IN  IF ~IsOk(ensure_unlocked(VM))
                THEN SharedReturn(t, "save_settings", settings,
                                  vault_save_settings(VM, settings, nonce_bytes, clock, "none"))
                ELSE /\ threads' = [threads EXCEPT ![t] =
                                      [pc |-> "save_encrypt", held |-> {}, arg |-> arg]]
                     /\ UNCHANGED <<crypto, is_unlocked, vault_items, meta, audit_log, last>>
                     /\ SharedFrame

\* add_credential: let crypto = self.crypto.lock().unwrap(); crypto.encrypt(..)
AddLockCrypto(t) ==
    /\ threads[t].pc = "add_crypto"
    /\ MutexFree("crypto")
    /\ UNCHANGED <<crypto, is_unlocked, vault_items, meta, audit_log>>
    /\ SharedStep(t, "add_conn", {"crypto"})

\* add_credential: let mut conn = self.conn.lock().unwrap(); the transaction
\* runs and the function returns, which drops conn and then crypto
AddLockConn(t) ==
    /\ threads[t].pc = "add_conn"
    /\ MutexFree("conn")
    /\ LET arg == threads[t].arg
       IN  SharedReturn(t, "add_credential", arg,
                        vault_add_credential(VM, arg.site, arg.username, arg.secret, arg.uuid,
                                             arg.nonce_bytes, clock, "none"))

\* get_settings: let conn = self.conn.lock().unwrap(); the SELECT runs; with
\* no stored settings or a locked vault the defaults are returned
GetLockConn(t) ==
    /\ threads[t].pc = "get_conn"
    /\ MutexFree("conn")
    /\ IF IsSome(meta.settings) /\ is_unlocked
       THEN /\ UNCHANGED <<crypto, is_unlocked, vault_items, meta, audit_log>>
            /\ SharedStep(t, "get_crypto", {"conn"})
       ELSE SharedReturn(t, "get_settings", <<>>, vault_get_settings(VM, "none"))

\* get_settings: let crypto = self.crypto.lock().unwrap() under the conn
\* guard; decrypt, parse, return
GetLockCrypto(t) ==
    /\ threads[t].pc = "get_crypto"
    /\ MutexFree("crypto")
    /\ SharedReturn(t, "get_settings", <<>>, vault_get_settings(VM, "none"))

\* save_settings: crypto locked, encrypt, drop(crypto)
SaveEncrypt(t) ==
    /\ threads[t].pc = "save_encrypt"
    /\ MutexFree("crypto")
    /\ UNCHANGED <<crypto, is_unlocked, vault_items, meta, audit_log>>
    /\ SharedStep(t, "save_write", {})

\* save_settings: conn locked, INSERT OR REPLACE INTO meta, drop(conn)
SaveWrite(t) ==
    /\ threads[t].pc = "save_write"
    /\ MutexFree("conn")
    /\ LET arg == threads[t].arg
           r == vault_save_settings(VM, arg.settings, arg.nonce_bytes, clock, "none")
       IN  meta' = r.vm.meta
    /\ UNCHANGED <<crypto, is_unlocked, vault_items, audit_log>>
    /\ SharedStep(t, "save_crypto", {})

\* save_settings: let mut crypto = self.crypto.lock().unwrap();
\* crypto.update_kdf_settings(settings.clone())
SaveLockCrypto(t) ==
    /\ threads[t].pc = "save_crypto"
    /\ MutexFree("crypto")
    /\ crypto' = update_kdf_settings(crypto, threads[t].arg.settings)
    /\ UNCHANGED <<is_unlocked, vault_items, meta, audit_log>>
    /\ SharedStep(t, "save_audit", {"crypto"})

\* save_settings: self.add_audit_log locks conn under the crypto guard,
\* inserts, and the function returns
SaveAudit(t) ==
    /\ threads[t].pc = "save_audit"
    /\ MutexFree("conn")
    /\ LET a == add_audit_log(VM, clock, <<"Updated app settings">>, None, "none")
       IN  SharedReturn(t, "save_settings", threads[t].arg.settings, Ret(a.err, <<>>, a.vm))

NextShared ==
    \/ SharedUnlock
    \/ \E t \in Threads : SharedCall(t)
    \/ \E t \in Threads : AddLockCrypto(t)
    \/ \E t \in Threads : AddLockConn(t)
    \/ \E t \in Threads : GetLockConn(t)
    \/ \E t \in Threads : GetLockCrypto(t)
    \/ \E t \in Threads : SaveEncrypt(t)
    \/ \E t \in Threads : SaveWrite(t)
    \/ \E t \in Threads : SaveLockCrypto(t)
    \/ \E t \in Threads : SaveAudit(t)

SpecShared == Init /\ [][NextShared]_vars

\* thread t holds mutex held and is blocked at the lock() of mutex wanted
HoldsAndWaits(t, held, wanted) ==
    /\ Holds(t, held)
    /\ WantedMutex(t) = <<wanted>>
    /\ ~MutexFree(wanted)

\* C34: with several threads calling add_credential, get_settings and
\* save_settings of one manager, no state is reached in which one call holds
\* the crypto mutex and waits for the storage mutex while another holds the
\* storage mutex and waits for the crypto mutex (from such a state neither
\* call returns).
C34_NoLockCycle ==
    ~ \E t, u \in Threads :
        /\ HoldsAndWaits(t, "crypto", "conn")
        /\ HoldsAndWaits(u, "conn", "crypto")

(***************************************************************************)
(* HibpService::check_hash_in_response (hibp.rs), applied to a hash suffix *)
(* and a response body (SpecHibp).  Texts are sequences of ASCII codes:    *)
(* 10 is the line feed, 13 the carriage return, 58 the colon, 43 the plus  *)
(* sign, 48..57 the digits.                                                *)
(***************************************************************************)
IndexOf(text, ch) ==
    IF \E k \in 1..Len(text) : text[k] = ch
    THEN CHOOSE k \in 1..Len(text) : text[k] = ch /\ \A j \in 1..(k - 1) : text[j] # ch
    ELSE 0

\* str::split(ch): the parts between the occurrences of ch
RECURSIVE Split(_, _)
Split(text, ch) ==
    LET k == IndexOf(text, ch)
    IN  IF k = 0 THEN <<text>>
        ELSE <<SubSeq(text, 1, k - 1)>> \o Split(SubSeq(text, k + 1, Len(text)), ch)

\* str::lines(): split at line feeds, a carriage return before the line feed
\* belongs to the line ending, no empty line after a final line feed
RECURSIVE Lines(_)
Lines(text) ==
    LET k == IndexOf(text, 10)
        line == SubSeq(text, 1, k - 1)
    IN  IF text = <<>> THEN <<>>
        ELSE IF k = 0 THEN <<text>>
        ELSE <<IF line # <<>> /\ line[Len(line)] = 13 THEN SubSeq(line, 1, Len(line) - 1)
               ELSE line>>
             \o Lines(SubSeq(text, k + 1, Len(text)))

IsWhitespace(ch) == ch \in {9, 10, 11, 12, 13, 32}

\* str::trim()
RECURSIVE Trim(_)
Trim(text) ==
    IF text = <<>> THEN text
    ELSE IF IsWhitespace(text[1]) THEN Trim(Tail(text))
    ELSE IF IsWhitespace(text[Len(text)]) THEN Trim(SubSeq(text, 1, Len(text) - 1))
    ELSE text

\* u64::MAX in decimal digits
U64MaxDigits == <<1, 8, 4, 4, 6, 7, 4, 4, 0, 7, 3, 7, 0, 9, 5, 5, 1, 6, 1, 5>>

RECURSIVE StripZeros(_)
StripZeros(digits) ==
    IF digits # <<>> /\ digits[1] = 0 THEN StripZeros(Tail(digits)) ELSE digits

\* digit sequences of the same length, compared as numbers
RECURSIVE DigitsLeq(_, _)
DigitsLeq(a, b) ==
    IF a = <<>> THEN TRUE
    ELSE IF a[1] # b[1] THEN a[1] < b[1]
    ELSE DigitsLeq(Tail(a), Tail(b))

\* str::parse::<u64>(): decimal digits after an optional plus sign, no
\* overflow; the result says whether the number is zero
ParseU64(text) ==
    LET body == IF text # <<>> /\ text[1] = 43 THEN Tail(text) ELSE text
        digits == StripZeros([i \in 1..Len(body) |-> body[i] - 48])
    IN  IF body = <<>> \/ \E i \in 1..Len(body) : body[i] \notin 48..57
        THEN Err("ParseIntError")
        ELSE IF Len(digits) > Len(U64MaxDigits)
                \/ (Len(digits) = Len(U64MaxDigits) /\ ~DigitsLeq(digits, U64MaxDigits))
        THEN Err("ParseIntError")
        ELSE Ok([zero |-> digits = <<>>])

\* a comparison that tells the cases apart
eq_ignore_ascii_case_Exact(a, b) == a = b

eq_ignore_ascii_case(a, b) ==
    Len(a) = Len(b) /\ \A i \in 1..Len(a) : Lower(a[i]) = Lower(b[i])

\* the body of the loop: the line is trimmed and split at the colons
LineListsHash(line, hash_suffix) ==
    LET parts == Split(Trim(line), 58)
    IN  IF Len(parts) = 2
        THEN LET suffix == parts[1]
                 parsed == ParseU64(parts[2])
                 positive == IsOk(parsed) /\ ~parsed.val.zero
             IN  eq_ignore_ascii_case(suffix, hash_suffix) /\ positive
        ELSE FALSE

RECURSIVE FirstHit(_, _)
FirstHit(lines, hash_suffix) ==
    IF lines = <<>> THEN Ok("Safe")
    ELSE IF LineListsHash(lines[1], hash_suffix) THEN Ok("Compromised")
    ELSE FirstHit(Tail(lines), hash_suffix)

check_hash_in_response(hash_suffix, response_body) ==
    FirstHit(Lines(response_body), hash_suffix)

\* suffixes "A" and "AA" (compute_sha1_hash writes upper-case hex digits)
HashSuffixes == {<<65>>, <<65, 65>>}

\* every text of at most MaxBody characters over 'a', 'A', ':', '0', '1' and
\* the line feed, and some longer ones: a line with blanks around it, CRLF
\* line endings, a count with a plus sign, u64::MAX and u64::MAX + 1 as
\* counts, a second line that lists the hash
ResponseBodies ==
    UNION {[1..n -> {97, 65, 58, 48, 49, 10}] : n \in 0..MaxBody}
    \cup {<<32, 65, 58, 49, 32>>,
          <<65, 58, 49, 13, 10, 97, 97, 58, 48, 13, 10>>,
          <<65, 58, 43, 49>>,
          <<65, 58, 32, 49>>,
          <<65, 58, 49, 56, 52, 52, 54, 55, 52, 52, 48, 55, 51, 55, 48, 57, 53, 53, 49, 54, 49, 53>>,
          <<65, 58, 49, 56, 52, 52, 54, 55, 52, 52, 48, 55, 51, 55, 48, 57, 53, 53, 49, 54, 49, 54>>,
          <<97, 58, 48, 10, 97, 65, 58, 49, 48, 10>>}

InitHibp ==
    /\ InitState
    /\ \E hash_suffix \in HashSuffixes, response_body \in ResponseBodies :
          last = [op |-> "input",
                  arg |-> [hash_suffix |-> hash_suffix, response_body |-> response_body],
                  err |-> "Ok", val |-> <<>>]

CheckHashInResponse ==
    /\ last.op = "input"
    /\ LET r == check_hash_in_response(last.arg.hash_suffix, last.arg.response_body)
       IN  last' = [op |-> "hibp.check_hash_in_response", arg |-> last.arg,
                    err |-> r.err, val |-> r.val]
    /\ UNCHANGED <<crypto, is_unlocked, vault_items, meta, audit_log, clock, sealed,
                   running, guards, state_guard, check, threads>>

NextHibp == CheckHashInResponse

SpecHibp == InitHibp /\ [][NextHibp]_vars

\* the lines of a response body: the texts between its line endings
RangeOf(seq) == {seq[i] : i \in 1..Len(seq)}

SameIgnoringCase(a, b) ==
    Len(a) = Len(b) /\ \A i \in 1..Len(a) : Upper(a[i]) = Upper(b[i])

AllDigits(text) == text # <<>> /\ \A i \in 1..Len(text) : text[i] \in 48..57

\* a count greater than 0: digits, after an optional plus sign, that stand
\* for a number between 1 and 2^64 - 1 (what does not fit in 64 bits is
\* unparsable)
PositiveCount(count) ==
    LET number == IF count # <<>> /\ count[1] = 43 THEN Tail(count) ELSE count
        digits == StripZeros([i \in 1..Len(number) |-> number[i] - 48])
    IN  /\ AllDigits(number)
        /\ digits # <<>>
        /\ Len(digits) <= Len(U64MaxDigits)
        /\ Len(digits) = Len(U64MaxDigits) => DigitsLeq(digits, U64MaxDigits)

\* the text is "S:C": S is the suffix up to the case of its letters, C is a
\* count greater than 0
Listed(text, hash_suffix) ==
    \E k \in 1..Len(text) :
        /\ text[k] = 58
        /\ SameIgnoringCase(SubSeq(text, 1, k - 1), hash_suffix)
        /\ PositiveCount(SubSeq(text, k + 1, Len(text)))

\* C27 as stated: the check returns Compromised exactly when some line of the
\* response is "S:C" with S the suffix up to ASCII case and C a count greater
\* than 0; otherwise it returns Safe; it never returns Unknown or an error.
C27_CompromisedIffListed ==
    (last.op = "hibp.check_hash_in_response")
    => /\ last.err = "Ok"
       /\ last.val = IF \E line \in RangeOf(Lines(last.arg.response_body)) :
                            Listed(line, last.arg.hash_suffix)
                     THEN "Compromised" ELSE "Safe"

\* C27, amended: the check returns Compromised exactly when some line of the
\* response, the white space around it dropped, is "S:C" with S the suffix up
\* to ASCII case and C a count greater than 0; otherwise it returns Safe; it
\* never returns Unknown or an error.
C27_CompromisedIffTrimmedListed ==
    (last.op = "hibp.check_hash_in_response")
    => /\ last.err = "Ok"
       /\ last.val = IF \E line \in RangeOf(Lines(last.arg.response_body)) :
                            Listed(Trim(line), last.arg.hash_suffix)
                     THEN "Compromised" ELSE "Safe"

\* the hash is listed in lower case on the second line, after a line with
\* count 0
C27_Witness ==
    /\ last.op = "hibp.check_hash_in_response"
    /\ last.arg.hash_suffix = <<65, 65>>
    /\ last.arg.response_body = <<97, 58, 48, 10, 97, 65, 58, 49, 48, 10>>
    /\ last.val = "Compromised"

====
